---- MODULE Spec2Model ----
(***************************************************************************)
(* Model of the xclipp selection server (src/clipper.cpp, src/clipper.hpp):*)
(* the event loop Clipper::Run, the request dispatcher, the transfer       *)
(* engine and the target handlers.  One action of the model is one         *)
(* iteration of the loop in Run: the switch on the event type followed by  *)
(* the pass over the request queues and the removal of the empty queues.   *)
(*                                                                         *)
(* Converted data is modelled as a buffer name with a size; a property     *)
(* write carries the slice (data, off, bytes) of that buffer it sends.     *)
(* std::uint32_t and std::size_t are modelled with Uint32Bits and SizeBits *)
(* bits.                                                                   *)
(***************************************************************************)
EXTENDS Integers, Sequences, FiniteSets, TLC

\* ------------------------------------------------------------------ bounds
MaxRequests == 2      \* SelectionRequest events received in one run
MaxChunks == 2        \* the payload is at most MaxChunks full chunks
Uint32Bits == 6       \* modelled width of std::uint32_t
SizeBits == 10        \* modelled width of std::size_t

\* --------------------------------------------------------------- X11 atoms
XCB_ATOM_NONE == 0
XCB_ATOM_ATOM == 4
XCB_ATOM_INTEGER == 19
XCB_CURRENT_TIME == 0
PRIMARY == 1          \* a selection other than CLIPBOARD
clipboard_atom_ == 70
atom_pair_atom_ == 71
incr_atom_ == 72
TIMESTAMP == 83
TARGETS == 81
MULTIPLE == 82
TEXT == 87
STRING_ATOM == 31
UTF8_STRING == 85
C_STRING == 86
FILE_NAME == 90
URI_LIST == 91
GNOME_COPIED_FILES == 92
KDE_COPIED_FILES == 93
MATE_COPIED_FILES == 94
NAUTILUS_CLIPBOARD == 95
BOGUS == 99           \* an atom without a handler
P1 == 61              \* property atoms chosen by the requestors
P2 == 62

\* ----------------------------------------------------------------- windows
owner_ == "owner"
OtherWindow == "other"
Requestors == {"w1", "w2"}

\* ------------------------------------------------------------------ widths
UINT32_MAX == 2 ^ Uint32Bits - 1
SIZE_MAX == 2 ^ SizeBits - 1
TRANSFER_PREINIT == SIZE_MAX
SizeT(x) == x % (SIZE_MAX + 1)
Min(a, b) == IF a <= b THEN a ELSE b

\* server timestamp of the PropertyNotify on the owner window
ownership_timestamp_ == 2
\* xcb_get_maximum_request_length, in 4-byte words
MaxRequestLengths == {32}

NoCallback == [kind |-> "none"]
Rids == 1 .. MaxRequests

VARIABLES
    pc,                 \* position in Clipper::Run
    own,                \* local `own` of Run
    max_transfer_size_,
    data_size,          \* data_.size()
    data_head,          \* the leading bytes of data_; the rest is filler
    is_file,            \* the constructor's is_file
    handlers_,          \* keys of handlers_
    req_queues_,        \* requestor -> sequence of Request; <<>> = no queue
    events,             \* the SelectionRequest events the Requests point to
    freed,              \* events released by ~Request
    transfers_,         \* (requestor, property) -> TransferState
    cache_,             \* target -> ConvertedData
    nreq,               \* number of SelectionRequest events received
    ub,                 \* kinds of undefined behaviour executed so far
    xlog,               \* the X requests that serve no SelectionRequest
    hist,               \* per event: original fields, X requests issued, the
                        \* pairs read, outcome
    last                \* the event handled by the last iteration, if the
                        \* iteration changed anything

\* what the constructor fixes for the whole run
config == <<max_transfer_size_, data_size, data_head, is_file, handlers_>>

vars == <<pc, own, config, req_queues_, events, freed, transfers_, cache_, nreq,
          ub, hist, xlog, last>>

\* ----------------------------------------------------------- X requests
ChangeProperty(w, p, type, format, len, data, off, bytes, value) ==
    [op |-> "ChangeProperty", mode |-> "replace", window |-> w, property |-> p,
     type |-> type, format |-> format, len |-> len,
     data |-> data, off |-> off, bytes |-> bytes, value |-> value]

ChangeWindowAttributes(w, mask) ==
    [op |-> "ChangeWindowAttributes", window |-> w, mask |-> mask]

SelectionNotify(e) ==
    [op |-> "SelectionNotify", requestor |-> e.requestor, selection |-> e.selection,
     target |-> e.target, time |-> e.time, property |-> e.property]

SetSelectionOwner(owner, selection, time) ==
    [op |-> "SetSelectionOwner", owner |-> owner, selection |-> selection,
     time |-> time]
GetSelectionOwner(selection) == [op |-> "GetSelectionOwner", selection |-> selection]

GetProperty(w, p, type, length) ==
    [op |-> "GetProperty", window |-> w, property |-> p, type |-> type,
     length |-> length]

\* the storage of an event after std::free, once no Request points to it
FreedEvent ==
    [owner |-> "freed", requestor |-> "freed", selection |-> 0, target |-> 0,
     property |-> 0, time |-> 0]
NoHistory(status) ==
    [orig |-> FreedEvent, ops |-> <<>>, status |-> status, read |-> <<>>,
     probe |-> <<>>, err |-> "none"]

\* a request whose Request object was destroyed in an earlier iteration
FinalStatus == {"done", "rejected", "failed"}
RECURSIVE ForgetUpTo(_, _)
ForgetUpTo(h, n) ==
    IF n = 0 THEN <<>>
    ELSE Append(ForgetUpTo(h, n - 1),
                IF h[n].status \in FinalStatus \cup {"gone"}
                THEN NoHistory("gone") ELSE h[n])
Forget(h) == ForgetUpTo(h, MaxRequests)

\* the machine state threaded through one loop iteration
Machine ==
    [q |-> req_queues_, ev |-> events, tr |-> transfers_, cache |-> cache_,
     hist |-> Forget(hist), freed |-> freed, ub |-> ub, stop |-> FALSE]

Issue(m, rid, x) == [m EXCEPT !.hist[rid].ops = Append(@, x)]
\* the value of the requestor's property the request has read
Read(m, rid, value) == [m EXCEPT !.hist[rid].read = value]
\* the reply to the request's first GetProperty: format, type and value of
\* the requestor's property
Probed(m, rid, reply) == [m EXCEPT !.hist[rid].probe = <<reply>>]
\* the X request whose check reported the error that aborts the transfer
Failed(m, rid, request) == [m EXCEPT !.hist[rid].err = request]
Undefined(m, kind) == [m EXCEPT !.ub = @ \cup {kind}]
\* a read of an event that was released: what follows is not modelled
ReadAfterFree(m) == [m EXCEPT !.ub = @ \cup {"read_after_free"}, !.stop = TRUE]

\* value-initialised TransferState created by transfers_[key]
DefaultTransferState ==
    [type |-> 0, format |-> 0, data |-> "null", size |-> 0, owned |-> <<>>,
     tranferred |-> 0]

TransferState(view) ==
    [type |-> view.type, format |-> view.format, data |-> view.data,
     size |-> view.size, owned |-> view.owned, tranferred |-> TRANSFER_PREINIT]

Erase(tr, key) == [k \in DOMAIN tr \ {key} |-> tr[k]]

\* ------------------------------------------------ SendFinishNotification
SendFinishNotification(m, rid) == Issue(m, rid, SelectionNotify(m.ev[rid]))

\* ----------------------------------------------- FinishRequestProcessing
\* the on_finish callback of a MULTIPLE sub-request; subreqs points into the
\* pair buffer owned by the transfer state of the MULTIPLE request
OnFinish(m, rid, cb) ==
    LET m1 == IF m.ev[rid].property = XCB_ATOM_NONE
              THEN IF cb.key \in DOMAIN m.tr /\ m.tr[cb.key].data = "pairs"
                   THEN [m EXCEPT !.tr[cb.key].owned[cb.i + 2] = XCB_ATOM_NONE]
                   ELSE Undefined(m, "use_after_free")
              ELSE m
    IN  [m1 EXCEPT !.ev[rid].target = cb.next_target,
                   !.ev[rid].property = cb.next_prop]

\* pop_front: ~Request releases the event the Request points to
PopFront(m, requestor, outcome) ==
    LET front == Head(m.q[requestor])
        rest == Tail(m.q[requestor])
        shared == \E i \in 1 .. Len(rest) : rest[i].req = front.req
        m1 == IF front.req \in m.freed THEN Undefined(m, "double_free") ELSE m
        m2 == IF front.on_finish = NoCallback
              THEN [m1 EXCEPT !.hist[front.req].status = outcome] ELSE m1
    IN  [m2 EXCEPT !.q[requestor] = rest,
                   !.freed = @ \cup {front.req},
                   !.ev[front.req] = IF shared THEN @ ELSE FreedEvent]

FinishRequestProcessing(m, rid, send_notification, outcome) ==
    LET requestor == m.ev[rid].requestor
        front == Head(m.q[requestor])
        m1 == IF front.on_finish # NoCallback THEN OnFinish(m, rid, front.on_finish)
              ELSE IF send_notification THEN SendFinishNotification(m, rid)
              ELSE m
    IN  PopFront(m1, requestor, outcome)

\* ---------------------------------------------------------------- Transfer
\* OneShot with the bound itself excluded
OneShotBelowMax(size) == size < max_transfer_size_
\* can transfer in one shot
OneShot(size) == size <= max_transfer_size_

\* SizeHint without the cap
SizeHintUncapped(size) == size
SizeHint(size) == Min(size, UINT32_MAX)

\* size of the next chunk: no element of `format` bits is split
ChunkSize(size, transferred, format) ==
    LET chunk_size == Min(max_transfer_size_, SizeT(size - transferred))
    IN  SizeT(chunk_size - ((8 * chunk_size) % format))

\* ChunkOffset that restarts at the beginning of the data
ChunkOffsetZero(transferred) == 0
\* data + transferred
ChunkOffset(transferred) == transferred

\* MoreToTransfer that compares the updated count's bound inclusively
MoreToTransferInclusive(transferred, size) == transferred <= size
\* more data yet to transfer (at least the final 0-size transfer)
MoreToTransfer(transferred, size) == transferred < size

\* x.fail is the set of X request kinds whose check (Await) reports an error
Transfer(m, rid, x) ==
    LET e == m.ev[rid]
        key == <<e.requestor, e.property>>
        m0 == IF key \in DOMAIN m.tr THEN m
              ELSE [m EXCEPT !.tr = @ @@ (key :> DefaultTransferState)]
        t == m0.tr[key]
        transferred == t.tranferred
    IN  IF transferred = TRANSFER_PREINIT
        THEN IF OneShot(t.size)
             THEN LET m1 == Issue(m0, rid, ChangeProperty(e.requestor, e.property,
                                 t.type, t.format, (8 * t.size) \div t.format,
                                 t.data, 0, t.size, t.owned))
                  IN  IF "ChangeProperty" \in x.fail
                      THEN [m |-> Failed(m1, rid, "ChangeProperty"), res |-> "fatal"]
                      ELSE [m |-> [m1 EXCEPT !.tr[key].tranferred = t.size],
                            res |-> "done"]
             ELSE LET size_hint == SizeHint(t.size)
                      m1 == Issue(m0, rid,
                                ChangeWindowAttributes(e.requestor, "PropertyChange"))
                      m2 == Issue(m1, rid, ChangeProperty(e.requestor, e.property,
                                 incr_atom_, 32, 1, "size_hint", 0, size_hint, <<>>))
                  IN  IF "ChangeWindowAttributes" \in x.fail
                      THEN [m |-> Failed(m2, rid, "ChangeWindowAttributes"),
                            res |-> "fatal"]
                      ELSE IF "ChangeProperty" \in x.fail
                      THEN [m |-> Failed(m2, rid, "ChangeProperty"), res |-> "fatal"]
                      ELSE LET m3 == SendFinishNotification(m2, rid)
                           IN  IF "SendEvent" \in x.fail
                               THEN [m |-> Failed(m3, rid, "SendEvent"),
                                     res |-> "fatal"]
                               ELSE [m |-> [m3 EXCEPT !.tr[key].tranferred = 0],
                                     res |-> "not_done"]
        ELSE IF t.format = 0
        \* (8 * chunk_size) % 0 and 8 * chunk_size / 0: where the division does
        \* not trap both are 0, and the server answers format 0 with BadValue
        THEN [m |-> Failed(Issue(Undefined(m0, "division_by_zero"), rid,
                                 ChangeProperty(e.requestor, e.property, t.type,
                                                t.format, 0, t.data,
                                                ChunkOffset(transferred), 0,
                                                t.owned)),
                           rid, "ChangeProperty"),
              res |-> "fatal"]
        ELSE LET chunk_size == ChunkSize(t.size, transferred, t.format)
                 m1 == Issue(m0, rid, ChangeProperty(e.requestor, e.property,
                            t.type, t.format, (8 * chunk_size) \div t.format,
                            t.data, ChunkOffset(transferred), chunk_size, t.owned))
             IN  IF "ChangeProperty" \in x.fail
                 THEN [m |-> Failed(m1, rid, "ChangeProperty"), res |-> "fatal"]
                 ELSE LET m2 == [m1 EXCEPT !.tr[key].tranferred =
                                               SizeT(@ + chunk_size)]
                      IN  IF MoreToTransfer(transferred, t.size)
                          THEN [m |-> m2, res |-> "not_done"]
                          ELSE [m |-> Issue(m2, rid,
                                        ChangeWindowAttributes(e.requestor, "NoEvent")),
                                res |-> "done"]

\* ---------------------------------------------------------- ProceedRequest
\* bool send_notification = transfer->second.tranferred <= max_transfer_size_
SendNotification(tranferred) == tranferred <= max_transfer_size_

\* NotifyAfterFatal that answers an aborted request
NotifyAfterFatalAlways == TRUE
\* fatal transfer error, discard request: FinishRequestProcessing(req, false)
NotifyAfterFatal == FALSE

\* in case MULTIPLE has put subrequests before itself
IsFront(m, rid) == Head(m.q[m.ev[rid].requestor]).req = rid

\* the part of ProceedRequest after the transfer state was found or inserted;
\* key is the key computed on entry
ProceedAfterConvert(m, rid, key, x) ==
    IF IsFront(m, rid)
    THEN LET r == Transfer(m, rid, x)
         IN  IF r.res = "fatal"
             THEN FinishRequestProcessing(
                      [r.m EXCEPT !.ev[rid].property = XCB_ATOM_NONE,
                                  !.tr = Erase(@, key)],
                      rid, NotifyAfterFatal, "failed")
             ELSE IF r.res = "done"
             THEN LET send_notification == SendNotification(r.m.tr[key].tranferred)
                  IN  FinishRequestProcessing([r.m EXCEPT !.tr = Erase(@, key)],
                                              rid, send_notification, "done")
             ELSE [r.m EXCEPT !.q[m.ev[rid].requestor][1].is_ready = FALSE]
    ELSE m

\* ProceedRequest with a convert that returns a ConvertedDataView
ProceedRequest(m, rid, view, x) ==
    LET key == <<m.ev[rid].requestor, m.ev[rid].property>>
        m1 == IF key \in DOMAIN m.tr THEN m
              ELSE [m EXCEPT !.tr = @ @@ (key :> TransferState(view))]
    IN  ProceedAfterConvert(m1, rid, key, x)

\* ---------------------------------------------------------------- utils
\* the payload bytes: data_head followed by the letter 'a' up to data_size
Filler == 97
Bytes(head, size) == [i \in 1 .. size |-> IF i <= Len(head) THEN head[i] ELSE Filler]
data_ == Bytes(data_head, data_size)
\* the payload up to its first filler byte.  The validators read the bytes
\* one code point at a time, and every further filler byte is one more
\* character that both accept
Leading(head, size) == Bytes(head, Min(size, Len(head) + 1))

is_icccm_string(data) ==
    \A i \in 1 .. Len(data) :
        LET c == data[i]
        IN  (32 <= c /\ c <= 126) \/ 160 <= c \/ c = 10 \/ c = 9

\* std::uint32_t min_value[] = {0, 0x0080, 0x0800, 010000}
min_value == <<0, 128, 2048, 4096>>

\* for (++i; n != 0 && i < data.size(); --n, ++i): i is the 1-based position
RECURSIVE TrailBytes(_, _, _, _)
TrailBytes(data, i, n, value) ==
    IF n # 0 /\ i <= Len(data)
    THEN IF data[i] \div 64 # 2
         THEN [ok |-> FALSE, i |-> i, n |-> n, value |-> value]
         ELSE TrailBytes(data, i + 1, n - 1, value * 64 + (data[i] % 64))
    ELSE [ok |-> TRUE, i |-> i, n |-> n, value |-> value]

\* the while loop of is_icccm_utf8_string from position i
RECURSIVE Utf8From(_, _)
Utf8From(data, i) ==
    IF i > Len(data) THEN TRUE
    ELSE LET c == data[i]
             lead == IF c < 128
                     THEN IF (c < 32 /\ c # 10 /\ c # 9) \/ c = 127
                          THEN [ok |-> FALSE, n |-> 0, value |-> 0]
                          ELSE [ok |-> TRUE, n |-> 0, value |-> c]
                     ELSE IF c < 192 THEN [ok |-> FALSE, n |-> 0, value |-> 0]
                     ELSE IF c < 224 THEN [ok |-> TRUE, n |-> 1, value |-> c % 32]
                     ELSE IF c < 240 THEN [ok |-> TRUE, n |-> 2, value |-> c % 16]
                     ELSE IF c < 248 THEN [ok |-> TRUE, n |-> 3, value |-> c % 8]
                     ELSE [ok |-> FALSE, n |-> 0, value |-> 0]
             t == TrailBytes(data, i + 1, lead.n, lead.value)
         IN  /\ lead.ok
             /\ t.ok
             /\ t.n = 0
             /\ ~ (t.value < min_value[lead.n + 1])
             /\ ~ ((55296 <= t.value /\ t.value <= 55551) \/ t.value > 1114111)
             /\ Utf8From(data, t.i)

is_icccm_utf8_string(data) == Utf8From(data, 1)

\* true for the characters a URI keeps as they are
has_to_be_encoded(c) ==
    \/ 65 <= c /\ c <= 90
    \/ 97 <= c /\ c <= 122
    \/ 48 <= c /\ c <= 57
    \/ c \in {47, 46, 95, 45, 126}

HexDigit(h) == IF h > 9 THEN 65 + h - 10 ELSE 48 + h

RECURSIVE encode(_)
encode(file_path) ==
    IF file_path = <<>> THEN <<>>
    ELSE LET c == Head(file_path)
         IN  (IF has_to_be_encoded(c) THEN <<c>>
              ELSE <<37, HexDigit(c \div 16), HexDigit(c % 16)>>)
             \o encode(Tail(file_path))

uri_len(file_path) ==
    LET as_is_char_cnt ==
            Cardinality({i \in 1 .. Len(file_path) : has_to_be_encoded(file_path[i])})
    IN  as_is_char_cnt + 3 * (Len(file_path) - as_is_char_cnt)

\* "file://"
UriPrefix == <<102, 105, 108, 101, 58, 47, 47>>
to_uri(file_path) ==
    [buf |-> UriPrefix \o encode(file_path) \o <<13, 10>>,
     size |-> Len(UriPrefix) + uri_len(file_path) + 2]

\* "copy\nfile://"
CopyPrefix == <<99, 111, 112, 121, 10>> \o UriPrefix
to_file_manager_clipboard_format(file_path) ==
    [buf |-> CopyPrefix \o encode(file_path),
     size |-> Len(CopyPrefix) + uri_len(file_path)]

\* ---------------------------------------------------------------- handlers
View(type, format, data, size, owned) ==
    [type |-> type, format |-> format, data |-> data, size |-> size,
     owned |-> owned]

\* ObsoleteClient that leaves the property of the request as it came
ObsoleteClientIgnored(m, rid) == m
\* req->property = req->property == XCB_ATOM_NONE ? req->target : req->property
ObsoleteClient(m, rid) ==
    [m EXCEPT !.ev[rid].property = IF @ = XCB_ATOM_NONE THEN m.ev[rid].target ELSE @]

\* the convert of the TIMESTAMP handler: sizeof ownership_timestamp_ bytes
TimestampConvert == View(XCB_ATOM_INTEGER, 32, "ownership_timestamp_", 4, <<>>)

TimestampHandler(m, rid, x) ==
    ProceedRequest(ObsoleteClient(m, rid), rid, TimestampConvert, x)

\* std::sort of the handler keys
RECURSIVE SortAscending(_)
SortAscending(S) ==
    IF S = {} THEN <<>>
    ELSE LET least == CHOOSE a \in S : \A b \in S : a <= b
         IN  <<least>> \o SortAscending(S \ {least})

\* TargetsConvert that leaves MULTIPLE out of the list
TargetsConvertWithoutMultiple ==
    View(XCB_ATOM_ATOM, 32, "cache_", 4 * (Cardinality(handlers_) - 1),
         SortAscending(handlers_ \ {MULTIPLE}))
TargetsConvert ==
    View(XCB_ATOM_ATOM, 32, "cache_", 4 * Cardinality(handlers_),
         SortAscending(handlers_))

\* a cache entry: the ConvertedData and, as its identity, the request whose
\* conversion allocated the buffer
CacheEntry(view, rid) ==
    [type |-> view.type, format |-> view.format, data |-> view.data,
     size |-> view.size, owned |-> view.owned, by |-> rid]

\* Stored without the test: every call converts again
StoredNever(cache, target) == FALSE
\* cache_.contains(req->target)
Stored(cache, target) == target \in DOMAIN cache

\* the lambda Cached returns: convert once, then view the stored data
Cached(m, rid, converted) ==
    LET target == m.ev[rid].target
    IN  IF Stored(m.cache, target) THEN m
        ELSE [m EXCEPT !.cache = [t \in DOMAIN @ \cup {target} |->
                                     IF t = target THEN CacheEntry(converted, rid)
                                     ELSE @[t]]]

\* ProceedRequest(req, Cached(convert)): convert is called only when the key
\* has no transfer state
ProceedCached(m, rid, converted, x) ==
    LET key == <<m.ev[rid].requestor, m.ev[rid].property>>
    IN  IF key \in DOMAIN m.tr THEN ProceedAfterConvert(m, rid, key, x)
        ELSE LET m1 == Cached(m, rid, converted)
                 entry == m1.cache[m.ev[rid].target]
             IN  ProceedRequest(m1, rid,
                                View(entry.type, entry.format, entry.data,
                                     entry.size, entry.owned), x)

TargetsHandler(m, rid, x) ==
    ProceedCached(ObsoleteClient(m, rid), rid, TargetsConvert, x)

\* return ConvertedDataView{req->target, 8, data_.data(), data_.size()}
AsIsConvert(target) == View(target, 8, "data_", data_size, <<>>)

as_is_convert(m, rid, x) ==
    LET m1 == ObsoleteClient(m, rid)
    IN  ProceedRequest(m1, rid, AsIsConvert(m1.ev[rid].target), x)

\* TextMapping that prefers STRING to UTF8_STRING
TextMappingStringFirst(targets) ==
    IF STRING_ATOM \in targets THEN STRING_ATOM
    ELSE IF UTF8_STRING \in targets THEN UTF8_STRING
    ELSE IF C_STRING \in targets THEN C_STRING
    ELSE XCB_ATOM_NONE

TextMapping(targets) ==
    IF UTF8_STRING \in targets THEN UTF8_STRING
    ELSE IF STRING_ATOM \in targets THEN STRING_ATOM
    ELSE IF C_STRING \in targets THEN C_STRING
    ELSE XCB_ATOM_NONE

\* TEXT type should be replaced with actual encoding; the as-is text targets
\* have a handler exactly when their atom was interned
text_mapping_atom == TextMapping(handlers_)

TextConvert == View(text_mapping_atom, 8, "data_", data_size, <<>>)

TextHandler(m, rid, x) ==
    ProceedRequest(ObsoleteClient(m, rid), rid, TextConvert, x)

\* file names are null-terminated strings: type = targets["C_STRING"]
FileNameConvert == View(C_STRING, 8, "data_", data_size, <<>>)

FileNameHandler(m, rid, x) ==
    ProceedRequest(ObsoleteClient(m, rid), rid, FileNameConvert, x)

UriListConvert(target) ==
    View(target, 8, "cache_", to_uri(data_).size, to_uri(data_).buf)

UriListHandler(m, rid, x) ==
    LET m1 == ObsoleteClient(m, rid)
    IN  ProceedCached(m1, rid, UriListConvert(m1.ev[rid].target), x)

FileConvert(target) ==
    View(target, 8, "cache_", to_file_manager_clipboard_format(data_).size,
         to_file_manager_clipboard_format(data_).buf)

file_convert(m, rid, x) ==
    LET m1 == ObsoleteClient(m, rid)
    IN  ProceedCached(m1, rid, FileConvert(m1.ev[rid].target), x)

\* init_subreq(i, next_target, next_prop) of the MULTIPLE handler; i counts
\* atoms from 0, c is [q, subreqs]
InitSubreq(m, rid, c, i, next_target, next_prop) ==
    LET e == m.ev[rid]
    IN  IF \/ c.subreqs[i + 2] = XCB_ATOM_NONE
           \/ /\ c.subreqs[i + 1] = e.target
              /\ <<e.requestor, c.subreqs[i + 2]>> \in DOMAIN m.tr
        THEN [c EXCEPT !.subreqs[i + 2] = XCB_ATOM_NONE]
        ELSE [c EXCEPT !.q = <<[req |-> rid, is_ready |-> TRUE,
                                on_finish |-> [kind |-> "sub",
                                               key |-> <<e.requestor, e.property>>,
                                               i |-> i,
                                               next_target |-> next_target,
                                               next_prop |-> next_prop]]>> \o @]

\* for (int i = n - 4; i >= 0; i -= 2) init_subreq(i, subreqs[i + 2], subreqs[i + 3])
RECURSIVE InitSubreqs(_, _, _, _)
InitSubreqs(m, rid, c, i) ==
    IF i < 0 THEN c
    ELSE InitSubreqs(m, rid,
                     InitSubreq(m, rid, c, i, c.subreqs[i + 3], c.subreqs[i + 4]),
                     i - 2)

\* the callback cb of the MULTIPLE convert for n > 0 atoms
ExpandMultiple(m, rid, value) ==
    LET e == m.ev[rid]
        n == Len(value)
        c0 == [q |-> m.q[e.requestor], subreqs |-> value]
        c1 == InitSubreq(m, rid, c0, n - 2, e.target, e.property)
        c2 == InitSubreqs(m, rid, c1, n - 4)
    IN  [m |-> [m EXCEPT !.q[e.requestor] = c2.q,
                         !.ev[rid].target = c2.subreqs[1],
                         !.ev[rid].property = c2.subreqs[2]],
         subreqs |-> c2.subreqs]

\* ValidSubrequests that asks for at least one pair
ValidSubrequestsNonEmpty(reply) ==
    /\ reply.format = 32
    /\ reply.type = atom_pair_atom_
    /\ (4 * Len(reply.value)) % 8 = 0
    /\ reply.value # <<>>

\* ValidSubrequests without the test of the property's type
ValidSubrequestsAnyType(reply) ==
    /\ reply.format = 32
    /\ (4 * Len(reply.value)) % 8 = 0
\* subrequests must be in specific format
ValidSubrequests(reply) ==
    /\ reply.format = 32
    /\ reply.type = atom_pair_atom_
    /\ (4 * Len(reply.value)) % 8 = 0

\* x.reply is the value of the property the requestor stored its pairs in
MultipleHandler(m, rid, x) ==
    LET e == m.ev[rid]
        key == <<e.requestor, e.property>>
    IN  IF e.property = XCB_ATOM_NONE
        THEN FinishRequestProcessing(m, rid, TRUE, "rejected")
        ELSE IF key \in DOMAIN m.tr
        THEN ProceedAfterConvert(m, rid, key, x)
        ELSE LET m1 == Issue(m, rid, GetProperty(e.requestor, e.property, 0, 0))
                 refuse(mm) ==
                     FinishRequestProcessing(
                         [mm EXCEPT !.ev[rid].property = XCB_ATOM_NONE],
                         rid, TRUE, "rejected")
             IN  IF "GetProperty" \in x.fail THEN refuse(m1)
                 ELSE IF ~ ValidSubrequests(x.reply)
                 THEN refuse(Probed(m1, rid, x.reply))
                 ELSE LET m2 == Read(Issue(Probed(m1, rid, x.reply), rid,
                                           GetProperty(e.requestor, e.property,
                                                       x.reply.type,
                                                       Len(x.reply.value))),
                                     rid, x.reply.value)
                          r == IF x.reply.value = <<>>
                               THEN [m |-> m2, subreqs |-> <<>>]
                               ELSE ExpandMultiple(m2, rid, x.reply.value)
                          view == View(atom_pair_atom_, 32, "pairs",
                                       4 * Len(r.subreqs), r.subreqs)
                          m3 == [r.m EXCEPT !.tr = @ @@ (key :> TransferState(view))]
                      IN  ProceedAfterConvert(m3, rid, key, x)

Handler(m, rid, x) ==
    LET target == m.ev[rid].target
    IN  IF target = TIMESTAMP THEN TimestampHandler(m, rid, x)
        ELSE IF target = TARGETS THEN TargetsHandler(m, rid, x)
        ELSE IF target = MULTIPLE THEN MultipleHandler(m, rid, x)
        ELSE IF target = TEXT THEN TextHandler(m, rid, x)
        ELSE IF target = FILE_NAME THEN FileNameHandler(m, rid, x)
        ELSE IF target = URI_LIST THEN UriListHandler(m, rid, x)
        ELSE IF target \in {GNOME_COPIED_FILES, KDE_COPIED_FILES, MATE_COPIED_FILES,
                            NAUTILUS_CLIPBOARD}
        THEN file_convert(m, rid, x)
        ELSE as_is_convert(m, rid, x)

\* -------------------------------------------------- StartRequestProcessing
WrongOwner(e) == e.owner # owner_
\* StaleTime that also refuses the ownership timestamp itself
StaleTimeInclusive(e) == e.time <= ownership_timestamp_ /\ e.time # XCB_CURRENT_TIME
StaleTime(e) == e.time < ownership_timestamp_ /\ e.time # XCB_CURRENT_TIME
WrongSelection(e) == e.selection # clipboard_atom_
\* NoHandler that lets every target through
NoHandlerIgnored(e) == FALSE
NoHandler(e) == e.target \notin handlers_

StartRequestProcessing(m, rid, x) ==
    LET e == m.ev[rid]
    IN  IF WrongOwner(e) \/ StaleTime(e) \/ WrongSelection(e) \/ NoHandler(e)
        THEN FinishRequestProcessing([m EXCEPT !.ev[rid].property = XCB_ATOM_NONE],
                                     rid, TRUE, "rejected")
        ELSE Handler([m EXCEPT !.hist[rid].status = "started"], rid, x)

\* ----------------------------------------------------------------- Run
\* ProcessQueue that waits while the head of another queue is not ready
ProcessQueueUnlessStalled(m, w, x) ==
    IF m.stop \/ m.q[w] = <<>> THEN m
    ELSE IF \E a \in Requestors \ {w} : m.q[a] # <<>> /\ ~ Head(m.q[a]).is_ready
    THEN m
    ELSE IF Head(m.q[w]).is_ready
    THEN IF Head(m.q[w]).req \in m.freed THEN ReadAfterFree(m)
         ELSE StartRequestProcessing(m, Head(m.q[w]).req, x)
    ELSE m

\* for (auto& [w, q] : req_queues_) if (q.front().is_ready) Start...(q.front().req)
ProcessQueue(m, w, x) ==
    IF m.stop \/ m.q[w] = <<>> THEN m
    ELSE IF Head(m.q[w]).is_ready
    THEN IF Head(m.q[w]).req \in m.freed THEN ReadAfterFree(m)
         ELSE StartRequestProcessing(m, Head(m.q[w]).req, x)
    ELSE m

RECURSIVE ProcessQueues(_, _, _)
ProcessQueues(m, ws, xs) ==
    IF ws = <<>> THEN m
    ELSE ProcessQueues(ProcessQueue(m, Head(ws), xs[Head(ws)]), Tail(ws), xs)

\* the iteration order of req_queues_ (an unordered_map)
WindowOrders == {<<"w1", "w2">>, <<"w2", "w1">>}

FailSets ==
    {{}, {"ChangeProperty"}, {"ChangeWindowAttributes"}, {"SendEvent"},
     {"GetProperty"}}

\* values a requestor stores in the property of a MULTIPLE request
Reply(format, type, value) == [format |-> format, type |-> type, value |-> value]
NoReply == Reply(0, 0, <<>>)
Replies ==
    {Reply(32, atom_pair_atom_, <<>>),
     Reply(32, atom_pair_atom_, <<UTF8_STRING, P2>>),
     Reply(32, atom_pair_atom_, <<UTF8_STRING, P1>>),
     Reply(32, atom_pair_atom_, <<UTF8_STRING, XCB_ATOM_NONE>>),
     Reply(32, atom_pair_atom_, <<MULTIPLE, P1>>),
     Reply(32, atom_pair_atom_, <<UTF8_STRING, P2, TIMESTAMP, P1>>),
     Reply(8, atom_pair_atom_, <<UTF8_STRING, P2>>),
     Reply(32, XCB_ATOM_ATOM, <<UTF8_STRING, P2>>),
     Reply(32, atom_pair_atom_, <<UTF8_STRING>>)}

\* the queues whose head the pass will process
Active(m) == {w \in Requestors : m.q[w] # <<>> /\ Head(m.q[w]).is_ready}
AsksProperty(m, w) ==
    /\ w \in Active(m)
    /\ m.ev[Head(m.q[w]).req].target = MULTIPLE
    /\ m.ev[Head(m.q[w]).req].property # XCB_ATOM_NONE

\* the end of an iteration.  An iteration that executed undefined behaviour
\* ends the modelled run: either the process was killed in it (the division
\* trapped, the allocator aborted) or it went on as modelled, and what the
\* program does after that is not modelled
Commit(m, ev, killed) ==
    IF killed \/ m.stop
    THEN /\ pc' = IF m.stop THEN "undefined" ELSE "killed"
         /\ ub' = m.ub
         /\ last' = ev
         /\ UNCHANGED <<req_queues_, events, transfers_, cache_, hist, freed>>
    ELSE /\ req_queues_' = m.q
         /\ events' = m.ev
         /\ transfers_' = m.tr
         /\ cache_' = m.cache
         /\ hist' = m.hist
         /\ freed' = m.freed
         /\ ub' = m.ub
         /\ last' = IF /\ <<m.q, m.ev, m.tr, m.cache, m.freed>> =
                             <<req_queues_, events, transfers_, cache_, freed>>
                       /\ own' = own
                    THEN [type |-> "none"] ELSE ev
         /\ pc' = IF m.ub # ub THEN "undefined" ELSE "loop"

\* what the X server answers while the head of w is processed
Inputs(m, w) ==
    IF w \notin Active(m) THEN {[fail |-> {}, reply |-> NoReply]}
    ELSE IF AsksProperty(m, w)
    THEN {[fail |-> f, reply |-> r] : f \in FailSets, r \in Replies}
    ELSE {[fail |-> f, reply |-> NoReply] : f \in FailSets \ {{"GetProperty"}}}

\* the part of a loop iteration that follows the switch
AfterSwitch(m, ev) ==
    \E m1 \in {ProcessQueues(m, ws, ("w1" :> x1) @@ ("w2" :> x2)) :
                  ws \in IF Cardinality(Active(m)) < 2 THEN {<<"w1", "w2">>}
                         ELSE WindowOrders,
                  x1 \in Inputs(m, "w1"), x2 \in Inputs(m, "w2")} :
        \E killed \in IF m1.ub # ub /\ ~ m1.stop THEN BOOLEAN ELSE {FALSE} :
            Commit(m1, ev, killed)

\* KeepRunning that forgets the queues once the ownership is lost
KeepRunningWhileOwner == own
\* own || !req_queues_.empty()
KeepRunning == own \/ \E w \in Requestors : req_queues_[w] # <<>>

\* the loop goes on and waits for the next event
LoopCondition == pc = "loop" /\ KeepRunning

\* ------------------------------------------------------- the events
GoodRequest(target, property, time) ==
    [owner |-> owner_, selection |-> clipboard_atom_, target |-> target,
     property |-> property, time |-> time]

BadOwner(e) == [e EXCEPT !.owner = OtherWindow]
BadSelection(e) == [e EXCEPT !.selection = PRIMARY]

\* the SelectionRequest events the requestors send: the four request times,
\* the property atoms P1, P2 and None, and each failing precondition
TextShapes ==
    {GoodRequest(UTF8_STRING, P1, ownership_timestamp_),
     GoodRequest(STRING_ATOM, XCB_ATOM_NONE, XCB_CURRENT_TIME),
     GoodRequest(TIMESTAMP, XCB_ATOM_NONE, ownership_timestamp_ + 1),
     GoodRequest(TARGETS, P2, ownership_timestamp_),
     GoodRequest(MULTIPLE, P1, ownership_timestamp_),
     GoodRequest(MULTIPLE, XCB_ATOM_NONE, ownership_timestamp_),
     GoodRequest(UTF8_STRING, P1, ownership_timestamp_ - 1),
     GoodRequest(BOGUS, P1, ownership_timestamp_),
     BadOwner(GoodRequest(UTF8_STRING, P1, ownership_timestamp_)),
     BadSelection(GoodRequest(UTF8_STRING, P1, ownership_timestamp_))}

\* the requests for a payload that is not plain ASCII: every text encoding
EncodingShapes ==
    {GoodRequest(TEXT, P1, ownership_timestamp_),
     GoodRequest(STRING_ATOM, P1, ownership_timestamp_),
     GoodRequest(UTF8_STRING, P2, ownership_timestamp_),
     GoodRequest(C_STRING, XCB_ATOM_NONE, ownership_timestamp_),
     GoodRequest(TARGETS, P2, ownership_timestamp_)}

\* the requests for a copied file
FileShapes ==
    {GoodRequest(URI_LIST, P1, ownership_timestamp_),
     GoodRequest(GNOME_COPIED_FILES, P2, ownership_timestamp_),
     GoodRequest(KDE_COPIED_FILES, XCB_ATOM_NONE, ownership_timestamp_),
     GoodRequest(FILE_NAME, P1, ownership_timestamp_),
     GoodRequest(TARGETS, P2, ownership_timestamp_)}

RequestShapes ==
    IF is_file THEN FileShapes
    ELSE IF data_head # <<>> THEN EncodingShapes
    ELSE TextShapes

\* the second requestor sends the requests that matter next to another
\* requestor's: a text request, an obsolete client's, a stale one, and the
\* cached conversions
ShapesOf(w) ==
    IF w = "w1" THEN RequestShapes
    ELSE IF is_file
    THEN {GoodRequest(URI_LIST, P1, ownership_timestamp_),
          GoodRequest(GNOME_COPIED_FILES, P1, ownership_timestamp_),
          GoodRequest(TARGETS, P1, ownership_timestamp_)}
    ELSE IF data_head # <<>>
    THEN {GoodRequest(TEXT, P1, ownership_timestamp_),
          GoodRequest(TARGETS, P1, ownership_timestamp_)}
    ELSE {GoodRequest(TEXT, P1, ownership_timestamp_),
          GoodRequest(TIMESTAMP, XCB_ATOM_NONE, ownership_timestamp_ + 1),
          GoodRequest(UTF8_STRING, P1, ownership_timestamp_ - 1)}

\* Enqueue at the front
EnqueueFront(q, r) == <<r>> \o q
\* req_queues_[req->requestor].emplace_back(req, true)
Enqueue(q, r) == Append(q, r)

OnSelectionRequest(w, shape) ==
    /\ LoopCondition
    /\ nreq < MaxRequests
    /\ nreq' = nreq + 1
    /\ UNCHANGED <<own, config, xlog>>
    /\ LET rid == nreq + 1
           e == [owner |-> shape.owner, requestor |-> w, selection |-> shape.selection,
                 target |-> shape.target, property |-> shape.property,
                 time |-> shape.time]
           m == [Machine EXCEPT
                    !.ev[rid] = e,
                    !.hist[rid] = [orig |-> e, ops |-> <<>>, status |-> "queued",
                                   read |-> <<>>, probe |-> <<>>,
                                   err |-> "none"],
                    !.q[w] = Enqueue(@, [req |-> rid, is_ready |-> TRUE,
                                         on_finish |-> NoCallback])]
       IN  AfterSwitch(m, [type |-> "SelectionRequest", window |-> w])

OnSelectionClear ==
    /\ LoopCondition
    /\ own' = FALSE
    /\ UNCHANGED <<config, xlog, nreq>>
    /\ AfterSwitch(Machine, [type |-> "SelectionClear"])

\* NextTransferAvailable without the test of the state
NextTransferAvailableAnyState(w, atom, state) ==
    /\ req_queues_[w] # <<>>
    /\ events[Head(req_queues_[w]).req].property = atom
\* the condition under which a PropertyNotify re-arms the head of a queue
NextTransferAvailable(w, atom, state) ==
    /\ state = "Delete"
    /\ req_queues_[w] # <<>>
    /\ events[Head(req_queues_[w]).req].property = atom

OnPropertyNotify(w, atom, state) ==
    /\ LoopCondition
    /\ UNCHANGED <<own, config, xlog, nreq>>
    /\ LET m0 == IF /\ state = "Delete"
                    /\ req_queues_[w] # <<>>
                    /\ Head(req_queues_[w]).req \in freed
                 THEN ReadAfterFree(Machine) ELSE Machine
           m == IF ~ m0.stop /\ NextTransferAvailable(w, atom, state)
                THEN [m0 EXCEPT !.q[w][1].is_ready = TRUE]
                ELSE m0
       IN  AfterSwitch(m, [type |-> "PropertyNotify", window |-> w, atom |-> atom,
                           state |-> state])

OnOtherEvent ==
    /\ LoopCondition
    /\ UNCHANGED <<own, config, xlog, nreq>>
    /\ AfterSwitch(Machine, [type |-> "Other"])

\* case 0: connection broken
OnConnectionBroken ==
    /\ LoopCondition
    /\ pc' = "returned"
    /\ last' = [type |-> "ConnectionBroken"]
    /\ UNCHANGED <<own, config, xlog, req_queues_, events,
                   freed, transfers_, cache_, nreq, ub, hist>>

\* xcb_wait_for_event returns a null pointer
WaitForEventFails ==
    /\ LoopCondition
    /\ pc' = "returned"
    /\ last' = [type |-> "WaitFailed"]
    /\ UNCHANGED <<own, config, xlog, req_queues_, events,
                   freed, transfers_, cache_, nreq, ub, hist>>

\* the loop condition is false: Run returns
LoopExit ==
    /\ pc = "loop"
    /\ ~ KeepRunning
    /\ pc' = "returned"
    /\ last' = [type |-> "LoopExit"]
    /\ UNCHANGED <<own, config, xlog, req_queues_, events,
                   freed, transfers_, cache_, nreq, ub, hist>>

\* the ownership check at the start of Run
CheckOwner(curr_owner) ==
    /\ pc = "start"
    /\ pc' = IF owner_ # curr_owner THEN "returned" ELSE "loop"
    /\ last' = [type |-> "GetSelectionOwner", owner |-> curr_owner]
    /\ xlog' = Append(xlog, GetSelectionOwner(clipboard_atom_))
    /\ UNCHANGED <<own, config, req_queues_, events,
                   freed, transfers_, cache_, nreq, ub, hist>>

\* ------------------------------------------------------ construction
PayloadSizes(M) ==
    {0, M + 1} \cup {k * M : k \in 1 .. MaxChunks}

required_targets == {TIMESTAMP, TARGETS, MULTIPLE}
text_targets == {TEXT, STRING_ATOM, UTF8_STRING, C_STRING}
file_targets ==
    {FILE_NAME, URI_LIST, GNOME_COPIED_FILES, KDE_COPIED_FILES, MATE_COPIED_FILES,
     NAUTILUS_CLIPBOARD}

\* Validated that asks for every text target
ValidatedAll(t, data) == TRUE
\* f == text_validators.end() || f->second(data)
Validated(t, data) ==
    /\ t = STRING_ATOM => is_icccm_string(data)
    /\ t = UTF8_STRING => is_icccm_utf8_string(data)

\* the atoms the constructor asks the server for
TargetCookies(data, file) ==
    required_targets
    \cup {t \in text_targets : Validated(t, data)}
    \cup (IF file THEN file_targets ELSE {})

\* the map `targets`: lost are the optional atoms whose InternAtom failed
InternedTargets(data, file, lost) ==
    TargetCookies(data, file) \ (lost \ required_targets)

RegisterHandlers(targets) ==
    {TIMESTAMP, TARGETS, MULTIPLE}
    \cup ({C_STRING, STRING_ATOM, UTF8_STRING} \cap targets)
    \cup (IF TextMapping(targets) # XCB_ATOM_NONE /\ TEXT \in targets
          THEN {TEXT} ELSE {})
    \cup (IF FILE_NAME \in targets /\ C_STRING \in targets THEN {FILE_NAME} ELSE {})
    \cup ({URI_LIST, GNOME_COPIED_FILES, KDE_COPIED_FILES, MATE_COPIED_FILES,
           NAUTILUS_CLIPBOARD} \cap targets)

\* leading bytes of the payloads: e-acute in Latin-1, a Cyrillic letter in
\* UTF-8, a control character, and the path "/a b"
Latin1Head == <<233>>
CyrillicHead == <<208, 150>>
ControlHead == <<1>>
PathHead == <<47, 97, 32, 98>>

\* the arguments of the constructor and the InternAtom replies: ASCII text
\* of every size, one short payload for each outcome of the validators, a
\* session without C_STRING, one whose UTF8_STRING atom was not interned, and
\* a file
Startups(M) ==
    {[head |-> <<>>, size |-> n, file |-> FALSE, lost |-> {}] :
        n \in PayloadSizes(M)}
    \cup {[head |-> h, size |-> Len(h), file |-> FALSE, lost |-> {}] :
             h \in {Latin1Head, CyrillicHead, ControlHead}}
    \cup {[head |-> ControlHead, size |-> Len(ControlHead), file |-> FALSE,
           lost |-> {C_STRING}],
          [head |-> CyrillicHead, size |-> Len(CyrillicHead), file |-> FALSE,
           lost |-> {UTF8_STRING}],
          [head |-> PathHead, size |-> Len(PathHead), file |-> TRUE, lost |-> {}]}

\* AcquireTime that lets the server choose the time
AcquireTimeCurrent == XCB_CURRENT_TIME
\* the time of xcb_set_selection_owner_checked
AcquireTime == ownership_timestamp_

Init ==
    /\ pc = "start"
    /\ own = TRUE
    /\ \E L \in MaxRequestLengths : max_transfer_size_ = 2 * L
    /\ \E s \in Startups(max_transfer_size_) :
           /\ data_head = s.head
           /\ data_size = s.size
           /\ is_file = s.file
           /\ handlers_ = RegisterHandlers(
                              InternedTargets(Leading(s.head, s.size), s.file, s.lost))
    /\ xlog = <<SetSelectionOwner(owner_, clipboard_atom_, AcquireTime)>>
    /\ req_queues_ = [w \in Requestors |-> <<>>]
    /\ events = [r \in Rids |-> FreedEvent]
    /\ freed = {}
    /\ transfers_ = <<>>
    /\ cache_ = <<>>
    /\ nreq = 0
    /\ ub = {}
    /\ hist = [r \in Rids |-> NoHistory("none")]
    /\ last = [type |-> "none"]

\* the properties of w whose deletion the server reports: the two the
\* requestors name and, on the window whose obsolete client asks for the
\* payload, the target atom it is served on
NotifiedAtoms(w) == IF w = "w1" THEN {P1, P2, STRING_ATOM} ELSE {P1, P2}

Next ==
    \/ \E c \in {owner_, OtherWindow} : CheckOwner(c)
    \/ \E w \in Requestors : \E s \in ShapesOf(w) : OnSelectionRequest(w, s)
    \/ OnSelectionClear
    \/ \E w \in Requestors : \E a \in NotifiedAtoms(w) : OnPropertyNotify(w, a, "Delete")
    \/ \E w \in Requestors : OnPropertyNotify(w, P1, "NewValue")
    \/ OnOtherEvent
    \/ OnConnectionBroken
    \/ WaitForEventFails
    \/ LoopExit

Spec == Init /\ [][Next]_vars

TypeOK ==
    /\ pc \in {"construct", "start", "loop", "returned", "killed", "undefined",
             "transfer", "transferred"}
    /\ own \in BOOLEAN
    /\ nreq \in 0 .. MaxRequests

\* ------------------------------------------------- the chunks of Transfer
\* xcb_get_maximum_request_length in 4-byte words: an even and an odd length,
\* so that max_transfer_size_ is and is not a multiple of 4
ChunkRequestLengths == {16, 17}
\* the element formats of xcb_change_property
ChunkFormats == {8, 16, 32}
\* the sizes of converted data that does not fit one write
ChunkSizes(M) == M + 1 .. 2 * M + 4

\* the state in which Transfer has announced an INCR transfer of size bytes of
\* the given format for request 1 of w1 and waits for the first
\* PropertyNotify
ChunkInit ==
    /\ pc = "transfer"
    /\ own = TRUE
    /\ \E L \in ChunkRequestLengths : max_transfer_size_ = 2 * L
    /\ data_size \in ChunkSizes(max_transfer_size_)
    /\ data_head = <<>>
    /\ is_file = FALSE
    /\ handlers_ = required_targets \cup text_targets
    /\ xlog = <<SetSelectionOwner(owner_, clipboard_atom_, AcquireTime)>>
    /\ LET e == GoodRequest(UTF8_STRING, P1, ownership_timestamp_)
                    @@ [requestor |-> "w1"]
       IN  /\ events = [r \in Rids |-> IF r = 1 THEN e ELSE FreedEvent]
           /\ hist = [r \in Rids |->
                         IF r = 1
                         THEN [NoHistory("started") EXCEPT !.orig = e]
                         ELSE NoHistory("none")]
           /\ \E format \in ChunkFormats :
                  transfers_ =
                      (<<"w1", P1>> :>
                           [TransferState(View(UTF8_STRING, format, "data_",
                                               data_size, <<>>))
                            EXCEPT !.tranferred = 0])
    /\ req_queues_ = [w \in Requestors |->
                         IF w = "w1"
                         THEN <<[req |-> 1, is_ready |-> FALSE,
                                 on_finish |-> NoCallback]>>
                         ELSE <<>>]
    /\ freed = {}
    /\ cache_ = <<>>
    /\ nreq = 1
    /\ ub = {}
    /\ last = [type |-> "SelectionRequest", window |-> "w1"]

\* one call of Transfer for the request, after the requestor has deleted the
\* property, every X request succeeding
ChunkStep ==
    /\ pc = "transfer"
    /\ LET r == Transfer(Machine, 1, [fail |-> {}])
       IN  /\ transfers_' = r.m.tr
           /\ hist' = r.m.hist
           /\ pc' = IF r.res = "not_done" THEN "transfer" ELSE "transferred"
    /\ last' = [type |-> "PropertyNotify", window |-> "w1", atom |-> P1,
                state |-> "Delete"]
    /\ UNCHANGED <<own, config, xlog, req_queues_, events, freed, cache_, nreq, ub>>

ChunkNext == ChunkStep

ChunkSpec == ChunkInit /\ [][ChunkNext]_vars

\* ------------------------------------------- the events a transfer needs
\* the requests of clients that ask for one conversion at a time
SingleShapes(w) == {s \in ShapesOf(w) : s.target # MULTIPLE}

\* the one SelectionClear of a session
ClearOnce == own /\ OnSelectionClear

\* the head of w's queue waits for the requestor to delete the property
Awaited(w) == req_queues_[w] # <<>> /\ ~ Head(req_queues_[w]).is_ready

\* the requestor deletes the property the waiting transfer wrote
AwaitedPropertyNotify(w) ==
    /\ Awaited(w)
    /\ OnPropertyNotify(w, events[Head(req_queues_[w]).req].property, "Delete")

\* the connection stays open and the only events are the requests, one
\* SelectionClear and the PropertyNotify(Delete) a waiting transfer asked for
FairNext ==
    \/ CheckOwner(owner_)
    \/ \E w \in Requestors : \E s \in SingleShapes(w) : OnSelectionRequest(w, s)
    \/ ClearOnce
    \/ \E w \in Requestors : AwaitedPropertyNotify(w)
    \/ LoopExit

\* the X server delivers the events it has to deliver, and a step of Run that
\* needs no event is taken
\* the steps of FairNext that handle the SelectionClear and the awaited
\* PropertyNotify, told by what they leave behind
ClearAwaited == pc = "loop" /\ own
ClearDelivered == ClearAwaited /\ own' = FALSE
NotifyAwaited(w) == pc = "loop" /\ Awaited(w)
NotifyDelivered(w) ==
    /\ NotifyAwaited(w)
    /\ last' = [type |-> "PropertyNotify", window |-> w,
                atom |-> events[Head(req_queues_[w]).req].property,
                state |-> "Delete"]

\* weak fairness of the steps of FairNext.  ClearOnce is enabled exactly when
\* ClearAwaited holds and AwaitedPropertyNotify(w) exactly when
\* NotifyAwaited(w) holds, so WF_vars(ClearOnce) and
\* WF_vars(AwaitedPropertyNotify(w)) are written out as
\* []<>(not enabled) \/ []<>(the step is taken)
FairSpec ==
    /\ Init
    /\ [][FairNext]_vars
    /\ WF_vars(CheckOwner(owner_))
    /\ WF_vars(LoopExit)
    /\ []<>(~ ClearAwaited) \/ []<><<ClearDelivered>>_vars
    /\ \A w \in Requestors :
           []<>(~ NotifyAwaited(w)) \/ []<><<NotifyDelivered(w)>>_vars

\* ================================================================== claims
\* the requests whose history is kept: queued, in service, or finished in the
\* last iteration
Known == {r \in Rids : hist[r].status \notin {"none", "gone"}}
Orig(r) == hist[r].orig
Ops(r) == hist[r].ops

IsPrefix(s, t) == Len(s) <= Len(t) /\ SubSeq(t, 1, Len(s)) = s

\* the preconditions of a request as the specification states them
PreconditionsMet(e) ==
    /\ e.owner = owner_
    /\ e.selection = clipboard_atom_
    /\ (e.time >= ownership_timestamp_ \/ e.time = XCB_CURRENT_TIME)
    /\ e.target \in handlers_

\* the converted data of a target other than MULTIPLE
Converted(target) ==
    IF target = TIMESTAMP THEN TimestampConvert
    ELSE IF target = TARGETS THEN TargetsConvert
    ELSE IF target = TEXT THEN TextConvert
    ELSE IF target = FILE_NAME THEN FileNameConvert
    ELSE IF target = URI_LIST THEN UriListConvert(target)
    ELSE IF target \in file_targets THEN FileConvert(target)
    ELSE AsIsConvert(target)

\* an accepted request for a target other than MULTIPLE
Accepted(r) == PreconditionsMet(Orig(r)) /\ Orig(r).target # MULTIPLE
SingleShot(r) == Accepted(r) /\ Converted(Orig(r).target).size <= max_transfer_size_

\* the property an accepted request is served on
ServedProperty(e) == IF e.property = XCB_ATOM_NONE THEN e.target ELSE e.property

\* one replace write with all the bytes, then one SelectionNotify, both
\* naming property p
SingleShotOps(e, p) ==
    LET v == Converted(e.target)
    IN  <<ChangeProperty(e.requestor, p, v.type, v.format,
                         (8 * v.size) \div v.format, v.data, 0, v.size, v.owned),
          SelectionNotify([e EXCEPT !.property = p])>>

\* C1 as stated: a served single-shot request was answered by exactly one
\* replace write of all S bytes to (requestor, property of the request) and
\* then one SelectionNotify whose fields, property included, mirror the
\* request.
SingleShotMirrorsRequest ==
    \A r \in Known :
        SingleShot(r) /\ hist[r].status = "done"
            => Ops(r) = SingleShotOps(Orig(r), Orig(r).property)

\* C1 amended: a served single-shot request (S <= max_transfer_size, S = 0 and
\* S = max_transfer_size included) was answered by exactly one replace write
\* of all S bytes with the converted type and format and then one
\* SelectionNotify mirroring the request, both naming the request's property
\* or, when that is None, the target atom; at no moment has anything else
\* been issued for the request.
SingleShotTransfer ==
    \A r \in Known :
        SingleShot(r)
            => LET expected == SingleShotOps(Orig(r), ServedProperty(Orig(r)))
               IN  /\ IsPrefix(Ops(r), expected)
                   /\ hist[r].status = "done" => Ops(r) = expected

\* a text request whose payload is exactly max_transfer_size bytes was served
SingleShotAtMax ==
    \E r \in Known :
        /\ SingleShot(r)
        /\ Orig(r).target = UTF8_STRING
        /\ data_size = max_transfer_size_
        /\ hist[r].status = "done"
        /\ Len(Ops(r)) = 2

\* ------------------------------------------------------- INCR transfers
IsWrite(o) == o.op = "ChangeProperty"
IsAnnouncement(o) == IsWrite(o) /\ o.type = incr_atom_
IsDataWrite(o) == IsWrite(o) /\ o.type # incr_atom_
IsNotify(o) == o.op = "SelectionNotify"

Announcements(r) == SelectSeq(Ops(r), IsAnnouncement)
DataWrites(r) == SelectSeq(Ops(r), IsDataWrite)
Notifications(r) == SelectSeq(Ops(r), IsNotify)

\* an accepted request whose converted data of format 8 does not fit one write
Incremental(r) ==
    /\ Accepted(r)
    /\ Converted(Orig(r).target).format = 8
    /\ Converted(Orig(r).target).size > max_transfer_size_

\* ceil(S / M)
FullChunks(S, M) == (S + M - 1) \div M

\* C2: an INCR transfer of S > M bytes of format 8 has, when it completes,
\* issued exactly one ChangeProperty of type INCR, exactly one SelectionNotify
\* and exactly ceil(S/M) + 1 replace writes of data, of which the last and no
\* other has zero length; every write went to (requestor, property); and at no
\* moment of the transfer have more than these been issued.
IncrWriteCount ==
    \A r \in Known :
        Incremental(r)
            => LET e == Orig(r)
                   n == FullChunks(Converted(e.target).size, max_transfer_size_) + 1
                   w == DataWrites(r)
               IN  /\ Len(Announcements(r)) <= 1
                   /\ Len(Notifications(r)) <= 1
                   /\ Len(w) <= n
                   /\ \A i \in 1 .. Len(w) : (w[i].bytes = 0) <=> (i = n)
                   /\ \A i \in 1 .. Len(Ops(r)) :
                          IsWrite(Ops(r)[i])
                              => /\ Ops(r)[i].window = e.requestor
                                 /\ Ops(r)[i].property = ServedProperty(e)
                                 /\ Ops(r)[i].mode = "replace"
                   /\ hist[r].status = "done"
                          => /\ Len(Announcements(r)) = 1
                             /\ Len(Notifications(r)) = 1
                             /\ Len(w) = n

\* a transfer of exactly two full chunks completed: two chunks and the
\* zero-length write
IncrTwoFullChunksDone ==
    \E r \in Known :
        /\ Incremental(r)
        /\ data_size = 2 * max_transfer_size_
        /\ hist[r].status = "done"
        /\ Len(DataWrites(r)) = 3

RECURSIVE BytesOf(_, _)
BytesOf(w, n) == IF n = 0 THEN 0 ELSE BytesOf(w, n - 1) + w[n].bytes

TextAsIs(r) ==
    Accepted(r) /\ Orig(r).target \in {TEXT, STRING_ATOM, UTF8_STRING, C_STRING}

TransferDataIntegrity ==
    \A r \in Known :
        TextAsIs(r)
            => LET w == DataWrites(r)
               IN  /\ \A i \in 1 .. Len(w) :
                          /\ w[i].data = "data_"
                          /\ w[i].off = BytesOf(w, i - 1)
                          /\ w[i].off + w[i].bytes <= data_size
                          /\ w[i].type = Converted(Orig(r).target).type
                          /\ w[i].format = 8
                          /\ w[i].len = w[i].bytes
                   /\ hist[r].status = "done" => BytesOf(w, Len(w)) = data_size

\* a completed transfer whose second chunk is the partial tail of the payload
TailChunkDelivered ==
    \E r \in Known :
        /\ TextAsIs(r)
        /\ hist[r].status = "done"
        /\ Len(DataWrites(r)) = 3
        /\ DataWrites(r)[2].off = max_transfer_size_
        /\ DataWrites(r)[2].bytes = 1

\* ------------------------------------------------------------ dispatching
\* the head of w's queue waits for a PropertyNotify
Stalled(w) == req_queues_[w] # <<>> /\ ~ Head(req_queues_[w]).is_ready
HeadOf(w) == Head(req_queues_[w]).req

\* C3: while the head request of a requestor waits after a not-done transfer
\* step, an iteration of the loop issues the next operation of that request
\* only if its event is a PropertyNotify with state Delete for the requestor's
\* window and the request's property; no other event makes it write.
IncrChunkGating ==
    [][\A w \in Requestors :
           Stalled(w) /\ hist'[HeadOf(w)].ops # hist[HeadOf(w)].ops
               => last' = [type |-> "PropertyNotify", window |-> w,
                           atom |-> events[HeadOf(w)].property,
                           state |-> "Delete"]]_vars

\* a PropertyNotify(Delete) has just let a waiting transfer write a chunk and
\* the transfer waits again
ChunkAfterDelete ==
    \E w \in Requestors :
        /\ Stalled(w)
        /\ last = [type |-> "PropertyNotify", window |-> w,
                   atom |-> events[HeadOf(w)].property, state |-> "Delete"]
        /\ Len(DataWrites(HeadOf(w))) >= 1

\* C6: of two requests of one requestor the later one has had nothing issued
\* for it, neither a write nor a SelectionNotify, as long as the earlier one
\* is not finished and popped, also while the earlier one waits in the middle
\* of an INCR transfer.
PerRequestorFifo ==
    \A r1, r2 \in Known :
        /\ r1 < r2
        /\ Orig(r1).requestor = Orig(r2).requestor
        /\ hist[r1].status \notin FinalStatus
        => Ops(r2) = <<>> /\ hist[r2].status = "queued"

\* a request waits behind an INCR transfer of its requestor that has written
\* a chunk and waits for the next PropertyNotify
QueuedBehindIncr ==
    \E r1, r2 \in Known :
        /\ r1 < r2
        /\ Orig(r1).requestor = Orig(r2).requestor
        /\ Stalled(Orig(r1).requestor)
        /\ HeadOf(Orig(r1).requestor) = r1
        /\ Len(DataWrites(r1)) >= 1
        /\ hist[r2].status = "queued"

\* C7: for every requestor at most one transfer-state entry has been started,
\* and that entry is keyed by the property of the head request of the
\* requestor's queue.
Started(w) ==
    {k \in DOMAIN transfers_ :
        k[1] = w /\ transfers_[k].tranferred # TRANSFER_PREINIT}

OneTransferInFlight ==
    \A w \in Requestors :
        /\ Cardinality(Started(w)) <= 1
        /\ \A k \in Started(w) :
               /\ req_queues_[w] # <<>>
               /\ HeadOf(w) \notin freed
               /\ events[HeadOf(w)].property = k[2]

\* C8: while the head of requestor a waits, a request arriving at the empty
\* queue of another requestor b is taken into service in the iteration of its
\* arrival, a ready head of b is advanced by every iteration, and a
\* PropertyNotify(Delete) b's waiting head asked for makes it write.
RequestorsIndependent ==
    [][\A a, b \in Requestors :
           a # b /\ Stalled(a) /\ pc' = "loop"
               => /\ ( /\ nreq' = nreq + 1
                       /\ hist'[nreq'].orig.requestor = b
                       /\ req_queues_[b] = <<>> )
                      => hist'[nreq'].status \in FinalStatus \cup {"started"}
                  /\ ( /\ req_queues_[b] # <<>>
                       /\ Head(req_queues_[b]).is_ready )
                      => hist'[HeadOf(b)] # hist[HeadOf(b)]
                  /\ ( /\ Stalled(b)
                       /\ last' = [type |-> "PropertyNotify", window |-> b,
                                   atom |-> events[HeadOf(b)].property,
                                   state |-> "Delete"] )
                      => Len(hist'[HeadOf(b)].ops) > Len(hist[HeadOf(b)].ops)]_vars

\* a later request of another requestor, an INCR transfer, is done while the
\* earlier requestor's transfer still waits
ServedWhileOtherStalled ==
    \E a, b \in Requestors :
        /\ a # b
        /\ Stalled(a)
        /\ \E r \in Known :
               /\ r > HeadOf(a)
               /\ Orig(r).requestor = b
               /\ Incremental(r)
               /\ hist[r].status = "done"

\* -------------------------------------------------------------- rejection
\* the answer to a rejected request: the request's fields, property None
Refusal(e) == <<SelectionNotify([e EXCEPT !.property = XCB_ATOM_NONE])>>

InQueue(r) ==
    \E w \in Requestors : \E i \in 1 .. Len(req_queues_[w]) : req_queues_[w][i].req = r

TimeTooOld(e) == e.time < ownership_timestamp_ /\ e.time # XCB_CURRENT_TIME

\* C9: a request with time < ownership_timestamp and time # CurrentTime is
\* never taken into service: it is rejected with exactly one SelectionNotify
\* with property None, without a write, and popped; and a rejected request
\* whose other preconditions hold and which is not a MULTIPLE request has
\* such a time.
OwnershipRule ==
    \A r \in Known :
        LET e == Orig(r)
        IN  /\ TimeTooOld(e)
                => /\ hist[r].status \in {"queued", "rejected"}
                   /\ hist[r].status = "queued" => Ops(r) = <<>> /\ InQueue(r)
                   /\ hist[r].status = "rejected"
                          => Ops(r) = Refusal(e) /\ ~ InQueue(r)
            /\ ( /\ hist[r].status = "rejected"
                 /\ e.owner = owner_
                 /\ e.selection = clipboard_atom_
                 /\ e.target \in handlers_ \ {MULTIPLE} )
                => TimeTooOld(e)

\* a request one tick older than the ownership was rejected
StaleRequestRejected ==
    \E r \in Known :
        /\ Orig(r).time = ownership_timestamp_ - 1
        /\ Orig(r).target = UTF8_STRING
        /\ hist[r].status = "rejected"
        /\ Ops(r) = Refusal(Orig(r))

\* C10: a request whose owner is not the server's window, whose selection is
\* not CLIPBOARD or whose target has no handler is rejected with exactly one
\* SelectionNotify with property None and the request's other fields, with
\* no property write and no transfer-state entry, and is removed from its
\* queue.
PreconditionFails(e) ==
    \/ e.owner # owner_
    \/ e.selection # clipboard_atom_
    \/ e.target \notin handlers_

PreconditionRejection ==
    \A r \in Known :
        LET e == Orig(r)
        IN  PreconditionFails(e)
                => /\ hist[r].status \in {"queued", "rejected"}
                   /\ hist[r].status = "queued" => Ops(r) = <<>>
                   /\ hist[r].status = "rejected"
                          => /\ Ops(r) = Refusal(e)
                             /\ ~ InQueue(r)
                             /\ \A k \in DOMAIN transfers_ : k[1] # e.requestor

\* a request for a target without a handler was rejected
UnknownTargetRejected ==
    \E r \in Known :
        /\ Orig(r).target = BOGUS
        /\ Orig(r).owner = owner_
        /\ Orig(r).selection = clipboard_atom_
        /\ hist[r].status = "rejected"
        /\ Ops(r) = Refusal(Orig(r))

\* ------------------------------------------------------------ the event loop
IsSuffix(s, t) == Len(s) <= Len(t) /\ SubSeq(t, Len(t) - Len(s) + 1, Len(t)) = s
QueuesEmpty == \A w \in Requestors : req_queues_[w] = <<>>

\* C11: once the ownership check has passed Run returns only when the
\* connection closes or, after a SelectionClear, when every queue is empty; the
\* ownership flag is dropped by a SelectionClear only; with the ownership lost
\* and every queue empty Run returns without waiting for an event; the
\* iteration that handles a SelectionClear leaves every request that is not a
\* ready head where it is, with nothing issued for it; and after the
\* SelectionClear a waiting transfer still writes its next chunk when its
\* PropertyNotify(Delete) arrives.
ExitConditions ==
    [][/\ (pc = "loop" /\ pc' = "returned")
              => \/ last'.type \in {"ConnectionBroken", "WaitFailed"}
                 \/ last'.type = "LoopExit" /\ ~ own /\ QueuesEmpty
       /\ (own /\ ~ own') => last'.type = "SelectionClear"
       /\ (pc = "loop" /\ ~ own /\ QueuesEmpty)
              => pc' = "returned" /\ last'.type = "LoopExit"
       /\ last'.type = "SelectionClear"
              => \A w \in Requestors :
                     /\ Stalled(w) => req_queues_'[w] = req_queues_[w]
                     /\ req_queues_[w] # <<>>
                            => /\ IsSuffix(Tail(req_queues_[w]), req_queues_'[w])
                               /\ \A i \in 2 .. Len(req_queues_[w]) :
                                      LET r == req_queues_[w][i].req
                                      IN  r # HeadOf(w) \/ Stalled(w)
                                              => hist'[r] = hist[r]
       /\ \A w \in Requestors :
              ( /\ ~ own
                /\ Stalled(w)
                /\ pc' = "loop"
                /\ last' = [type |-> "PropertyNotify", window |-> w,
                            atom |-> events[HeadOf(w)].property, state |-> "Delete"] )
                  => Len(hist'[HeadOf(w)].ops) > Len(hist[HeadOf(w)].ops)]_vars

\* Run has returned through the loop condition right after the iteration that
\* finished an INCR transfer, which was waiting when the ownership was lost
ReturnedAfterDraining ==
    /\ pc = "returned"
    /\ last.type = "LoopExit"
    /\ ~ own
    /\ \E r \in Known : Incremental(r) /\ hist[r].status = "done"

\* C12: with the connection open and the events delivered fairly (the
\* SelectionClear, and the PropertyNotify(Delete) every waiting transfer asked
\* for), every request that was enqueued is eventually finished and popped,
\* and Run eventually returns.
EveryRequestFinished ==
    /\ \A r \in Rids :
           (hist[r].status = "queued") ~> (hist[r].status \in FinalStatus \cup {"gone"})
    /\ <>(pc = "returned")

\* ---------------------------------------------------------------- MULTIPLE
\* an accepted MULTIPLE request with a property, and the pairs it has read
MultipleRequest(r) ==
    /\ PreconditionsMet(Orig(r))
    /\ Orig(r).target = MULTIPLE
    /\ Orig(r).property # XCB_ATOM_NONE
PairsRead(r) == hist[r].read
PairCount(v) == Len(v) \div 2
PairTarget(v, i) == v[2 * i - 1]
PairProperty(v, i) == v[2 * i]

\* n >= 1 pairs of registered targets other than MULTIPLE with single-shot
\* data, the properties pairwise distinct, not None and not the parent's
WellFormedPairs(e, v) ==
    /\ Len(v) >= 2
    /\ Len(v) % 2 = 0
    /\ \A i \in 1 .. PairCount(v) :
           /\ PairTarget(v, i) \in handlers_ \ {MULTIPLE}
           /\ Converted(PairTarget(v, i)).size <= max_transfer_size_
           /\ PairProperty(v, i) \notin {XCB_ATOM_NONE, e.property}
           /\ \A j \in 1 .. PairCount(v) :
                  i # j => PairProperty(v, i) # PairProperty(v, j)

\* the write of the conversion of target t to (requestor, p)
ConversionWrite(e, t, p) ==
    LET c == Converted(t)
    IN  ChangeProperty(e.requestor, p, c.type, c.format, (8 * c.size) \div c.format,
                       c.data, 0, c.size, c.owned)

RECURSIVE ConversionWrites(_, _, _)
ConversionWrites(e, v, n) ==
    IF n = 0 THEN <<>>
    ELSE Append(ConversionWrites(e, v, n - 1),
                ConversionWrite(e, PairTarget(v, n), PairProperty(v, n)))

\* the pair list v written to the property of the MULTIPLE request
WriteBack(e, v) ==
    ChangeProperty(e.requestor, e.property, atom_pair_atom_, 32, Len(v), "pairs", 0,
                   4 * Len(v), v)

MultipleOps(e, v) ==
    <<GetProperty(e.requestor, e.property, 0, 0),
      GetProperty(e.requestor, e.property, atom_pair_atom_, Len(v))>>
    \o ConversionWrites(e, v, PairCount(v))
    \o <<WriteBack(e, v), SelectionNotify(e)>>

\* C13: a MULTIPLE request with well-formed pairs (t_1, p_1) .. (t_n, p_n)
\* reads its property, writes the conversion of t_i to (requestor, p_i) for
\* i = 1 .. n in that order, writes the unchanged pair list back to its
\* property and sends one SelectionNotify with target MULTIPLE and its
\* property; nothing else is ever issued for it.
MultipleSuccess ==
    \A r \in Known :
        MultipleRequest(r) /\ WellFormedPairs(Orig(r), PairsRead(r))
            => LET expected == MultipleOps(Orig(r), PairsRead(r))
               IN  /\ IsPrefix(Ops(r), expected)
                   /\ hist[r].status = "done" => Ops(r) = expected

\* a write of an ATOM_PAIR value to the property of the MULTIPLE request
IsWriteBack(e, o) ==
    /\ IsWrite(o)
    /\ o.type = atom_pair_atom_
    /\ o.window = e.requestor
    /\ o.property = e.property

\* w is the list v with some property slots replaced by None
SlotsKeptOrNone(v, w) ==
    /\ Len(w) = Len(v)
    /\ \A i \in 1 .. PairCount(v) :
           /\ PairTarget(w, i) = PairTarget(v, i)
           /\ PairProperty(w, i) \in {PairProperty(v, i), XCB_ATOM_NONE}

\* C14: a MULTIPLE request that has read n >= 1 pairs writes back a list of
\* the same length and order with every target unchanged and every property
\* slot either kept or None, in format 32 and type ATOM_PAIR, and it is not
\* finished before that write-back was issued.
MultipleWriteBack ==
    \A r \in Known :
        MultipleRequest(r) /\ Len(PairsRead(r)) >= 2
            => /\ \A k \in 1 .. Len(Ops(r)) :
                      IsWriteBack(Orig(r), Ops(r)[k])
                          => /\ Ops(r)[k].format = 32
                             /\ Ops(r)[k].len = Len(PairsRead(r))
                             /\ SlotsKeptOrNone(PairsRead(r), Ops(r)[k].value)
               /\ hist[r].status \in FinalStatus
                      => \E k \in 1 .. Len(Ops(r)) : IsWriteBack(Orig(r), Ops(r)[k])

\* the pairs of the list v that name the MULTIPLE target and the property of
\* the MULTIPLE request itself
LoopPairs(e, v) ==
    {i \in 1 .. PairCount(v) :
        PairTarget(v, i) = MULTIPLE /\ PairProperty(v, i) = e.property}

IsRead(o) == o.op = "GetProperty"

\* C15: a pair (MULTIPLE, P) in the list of a MULTIPLE request with property
\* P is not enqueued as a sub-request, its slot is None in every write-back,
\* and the request reads its property once (two GetProperty), never again.
LoopPairRefused ==
    \A r \in Known :
        MultipleRequest(r)
            => \A i \in LoopPairs(Orig(r), PairsRead(r)) :
                   /\ \A k \in 1 .. Len(Ops(r)) :
                          IsWriteBack(Orig(r), Ops(r)[k])
                              => PairProperty(Ops(r)[k].value, i) = XCB_ATOM_NONE
                   /\ \A k \in 1 .. Len(req_queues_[Orig(r).requestor]) :
                          LET q == req_queues_[Orig(r).requestor][k]
                          IN  ~ ( /\ q.req = r
                                  /\ q.on_finish # NoCallback
                                  /\ q.on_finish.i = 2 * (i - 1) )
                   /\ Len(SelectSeq(Ops(r), IsRead)) <= 2

\* ------------------------------------------------------------------ errors
\* the queue q without the entries of request r
Without(q, r) == LET keep(x) == x.req # r IN SelectSeq(q, keep)

\* C16: in the iteration in which a property write of a request (the
\* single-shot write, the INCR announcement, a data chunk) or the subscription
\* to the requestor's property changes is refused, that request is aborted and
\* nothing else: the refused write is the last operation issued for it, it has
\* no SelectionNotify other than the one an INCR transfer sent before its
\* chunks, it is popped and its event released, its transfer-state entry is
\* erased, the requests behind it, one received in the same iteration
\* included, stay queued, the ready heads of the other
\* requestors are processed as usual, and Run neither returns nor dies.
TransferErrorAbortsRequest ==
    [][\A r \in Rids :
           ( /\ hist[r].status # "failed"
             /\ hist'[r].status = "failed"
             /\ hist'[r].err \in {"ChangeProperty", "ChangeWindowAttributes"} )
               => LET e == hist'[r].orig
                      o == hist'[r].ops
                      w == e.requestor
                      \* the request of w this iteration has received, if any
                      arrived == IF nreq' # nreq /\ hist'[nreq'].orig.requestor = w
                                 THEN <<[req |-> nreq', is_ready |-> TRUE,
                                         on_finish |-> NoCallback]>>
                                 ELSE <<>>
                  IN  /\ pc' \notin {"returned", "killed"}
                      /\ o # <<>>
                      /\ IsWrite(o[Len(o)])
                      /\ \A k \in 1 .. Len(o) :
                             IsNotify(o[k])
                                 => k = 3 /\ IsAnnouncement(o[2]) /\ Len(o) > 3
                      /\ req_queues_'[w] = Without(req_queues_[w] \o arrived, r)
                      /\ r \in freed'
                      /\ <<w, ServedProperty(e)>> \notin DOMAIN transfers_'
                      /\ \A b \in Requestors \ {w} :
                             ( /\ req_queues_[b] # <<>>
                               /\ Head(req_queues_[b]).is_ready )
                                 => hist'[HeadOf(b)] # hist[HeadOf(b)]]_vars

\* a data chunk of an INCR transfer was refused after the first chunk had
\* been written, and the loop goes on with another request known
ChunkWriteRefused ==
    \E r \in Known :
        /\ Incremental(r)
        /\ hist[r].status = "failed"
        /\ hist[r].err = "ChangeProperty"
        /\ Len(DataWrites(r)) = 2
        /\ pc = "loop"
        /\ \E r2 \in Known : r2 # r /\ hist[r2].status \in {"queued", "started"}


\* ----------------------------------------------------------------- TARGETS
StrictlyAscending(v) == \A i \in 1 .. Len(v) - 1 : v[i] < v[i + 1]
Elements(v) == {v[i] : i \in 1 .. Len(v)}

\* C17: the data written for an accepted TARGETS request is an array of type
\* ATOM and format 32 whose elements are exactly the atoms of the registered
\* handlers, each once, in strictly ascending order; a served TARGETS request
\* got this array in one write.
TargetsContent ==
    \A r \in Known :
        Accepted(r) /\ Orig(r).target = TARGETS
            => /\ \A i \in 1 .. Len(DataWrites(r)) :
                      LET o == DataWrites(r)[i]
                      IN  /\ o.type = XCB_ATOM_ATOM
                          /\ o.format = 32
                          /\ o.len = Cardinality(handlers_)
                          /\ o.bytes = 4 * o.len
                          /\ o.off = 0
                          /\ Len(o.value) = o.len
                          /\ StrictlyAscending(o.value)
                          /\ Elements(o.value) = handlers_
               /\ hist[r].status = "done" => Len(DataWrites(r)) = 1

\* a TARGETS request was served in a session that offers a file: the list
\* names the required, the text and the file targets
TargetsServedForFile ==
    \E r \in Known :
        /\ Accepted(r)
        /\ Orig(r).target = TARGETS
        /\ hist[r].status = "done"
        /\ is_file
        /\ Len(DataWrites(r)) = 1
        /\ Cardinality(Elements(DataWrites(r)[1].value)) = 13


\* ------------------------------------------------------------------- cache
\* the targets whose handler converts through Cached
Cacheable ==
    {TARGETS, URI_LIST, GNOME_COPIED_FILES, KDE_COPIED_FILES, MATE_COPIED_FILES,
     NAUTILUS_CLIPBOARD}

\* every data write of an accepted request for a cacheable target carries the
\* type, the format and the bytes of the stored entry of its target
ServedFromCache ==
    \A r \in Known :
        Accepted(r) /\ Orig(r).target \in Cacheable
            => \A i \in 1 .. Len(DataWrites(r)) :
                   LET o == DataWrites(r)[i]
                       t == Orig(r).target
                   IN  /\ t \in DOMAIN cache_
                       /\ o.type = cache_[t].type
                       /\ o.format = cache_[t].format
                       /\ o.data = "cache_"
                       /\ o.off = 0
                       /\ o.bytes = cache_[t].size
                       /\ o.value = cache_[t].owned

\* C18: the conversion of a cacheable target is computed at most once: an
\* entry of the cache, once stored, is never changed, replaced by a new
\* conversion or removed, only cacheable targets with a handler have entries,
\* an entry holds the conversion of its target, and every request for the
\* target, from any requestor, is served the type, format and bytes of that
\* entry.
CacheIdempotence ==
    [][/\ \A t \in DOMAIN cache_ : t \in DOMAIN cache_' /\ cache_'[t] = cache_[t]
       /\ DOMAIN cache_' \subseteq Cacheable \cap handlers_
       /\ \A t \in DOMAIN cache_' :
              \E r \in Rids : cache_'[t] = CacheEntry(Converted(t), r)
       /\ ServedFromCache']_vars

\* a request for text/uri-list was served from the entry that an earlier
\* request for the same target had stored
ServedFromEarlierConversion ==
    \E r \in Known :
        /\ Accepted(r)
        /\ Orig(r).target = URI_LIST
        /\ hist[r].status = "done"
        /\ Len(DataWrites(r)) = 1
        /\ URI_LIST \in DOMAIN cache_
        /\ cache_[URI_LIST].by # r
        /\ DataWrites(r)[1].value = to_uri(data_).buf


\* ----------------------------------------------------------- handler table
\* what the validators say of the payload
PayloadIsString == is_icccm_string(Leading(data_head, data_size))
PayloadIsUtf8 == is_icccm_utf8_string(Leading(data_head, data_size))

HandlerSet ==
    /\ {TIMESTAMP, TARGETS, MULTIPLE} \subseteq handlers_
    /\ STRING_ATOM \in handlers_ => PayloadIsString
    /\ UTF8_STRING \in handlers_ => PayloadIsUtf8
    /\ handlers_ \cap file_targets # {} => is_file

\* C19: at every moment after construction the handler set contains
\* TIMESTAMP, TARGETS and MULTIPLE, contains STRING only if is_icccm_string
\* accepts the payload, UTF8_STRING only if is_icccm_utf8_string accepts it,
\* and a file target only if is_file is true; and no step of the event loop,
\* whatever request it processes, changes the set of handler keys.
HandlerTable ==
    /\ []HandlerSet
    /\ [][handlers_' = handlers_]_vars

\* a request for UTF8_STRING was refused in a session whose payload is valid
\* Latin-1 but not valid UTF-8: STRING has a handler, UTF8_STRING has none
Utf8RefusedForLatin1 ==
    \E r \in Known :
        /\ Orig(r).target = UTF8_STRING
        /\ hist[r].status = "rejected"
        /\ UTF8_STRING \notin handlers_
        /\ STRING_ATOM \in handlers_
        /\ PayloadIsString
        /\ ~ PayloadIsUtf8


\* ---------------------------------------------------------- ownership race
IsSetOwner(o) == o.op = "SetSelectionOwner"
SetOwnerRequests == SelectSeq(xlog, IsSetOwner)

\* the reply to GetSelectionOwner named another window
LostRace == last.type = "GetSelectionOwner" /\ last.owner # owner_

AcquiredOnce ==
    /\ Len(SetOwnerRequests) = 1
    /\ IsSetOwner(xlog[1])
    /\ xlog[1] = SetSelectionOwner(owner_, clipboard_atom_, ownership_timestamp_)
    /\ xlog[1].time # XCB_CURRENT_TIME

NothingServed ==
    /\ nreq = 0
    /\ QueuesEmpty
    /\ transfers_ = <<>>
    /\ \A r \in Rids : hist[r].ops = <<>>

\* C20: SetSelectionOwner is issued exactly once, as the first request, with
\* the timestamp of the PropertyNotify on the owner window and never with
\* CurrentTime; when the reply to the GetSelectionOwner that follows names
\* another window, Run has returned at once: no event was received, no
\* property written and no SelectionNotify sent, and nothing happens after;
\* and once the ownership is lost no step sets own again or issues another
\* SetSelectionOwner.
OwnershipRace ==
    /\ [](AcquiredOnce /\ (LostRace => pc = "returned" /\ NothingServed))
    /\ [][/\ pc # "returned"
          /\ ~ own => ~ own'
          /\ SelectSeq(xlog', IsSetOwner) = SetOwnerRequests]_vars

\* another client owns the selection when Run asks: Run has returned after
\* the two requests SetSelectionOwner and GetSelectionOwner
OutracedAtStart ==
    /\ LostRace
    /\ pc = "returned"
    /\ xlog = <<SetSelectionOwner(owner_, clipboard_atom_, ownership_timestamp_),
                GetSelectionOwner(clipboard_atom_)>>


\* ------------------------------------------- MULTIPLE: target and property
\* the properties of the pairs of v that are enqueued as sub-requests
EnqueuedProperties(v) ==
    {PairProperty(v, i) : i \in 1 .. PairCount(v)} \ {XCB_ATOM_NONE}

\* C21: every step taken for a MULTIPLE request with property P runs with the
\* event naming either the pair of an enqueued sub-request or (MULTIPLE, P):
\* every property write issued for the request goes to P or to the property
\* of an enqueued pair, never to the property of a pair that was refused at
\* expansion, and every SelectionNotify of the request has target MULTIPLE
\* and property P or None.
TargetPropertyRestored ==
    \A r \in Known :
        MultipleRequest(r)
            => \A k \in 1 .. Len(Ops(r)) :
                   LET o == Ops(r)[k]
                   IN  /\ IsWrite(o)
                           => o.property \in {Orig(r).property}
                                              \cup EnqueuedProperties(PairsRead(r))
                       /\ IsNotify(o)
                           => /\ o.target = MULTIPLE
                              /\ o.property \in {Orig(r).property, XCB_ATOM_NONE}


\* ------------------------------------------------------ invalid MULTIPLE
\* a property value that is not a list of atom pairs
IllFormed(reply) ==
    \/ reply.format # 32
    \/ reply.type # atom_pair_atom_
    \/ Len(reply.value) % 2 # 0

InvalidMultiple(r) ==
    /\ PreconditionsMet(Orig(r))
    /\ Orig(r).target = MULTIPLE
    /\ \/ Orig(r).property = XCB_ATOM_NONE
       \/ hist[r].probe # <<>> /\ IllFormed(hist[r].probe[1])

SubRequestsOf(r) ==
    {<<w, i>> \in Requestors \X (1 .. MaxRequests + 4) :
        /\ i <= Len(req_queues_[w])
        /\ req_queues_[w][i].req = r
        /\ req_queues_[w][i].on_finish # NoCallback}

\* C22: a MULTIPLE request whose property is None, or whose property value
\* is not of format 32, not of type ATOM_PAIR or not a whole number of pairs,
\* is refused as a whole: no sub-request is enqueued, nothing is written, no
\* transfer state is created, and once it has been processed it was answered
\* by exactly one SelectionNotify with property None (after the one
\* GetProperty that looked at the property, if there is one) and is popped.
InvalidMultipleRefused ==
    \A r \in Known :
        InvalidMultiple(r)
            => LET e == Orig(r)
                   look == IF e.property = XCB_ATOM_NONE THEN <<>>
                           ELSE <<GetProperty(e.requestor, e.property, 0, 0)>>
               IN  /\ SubRequestsOf(r) = {}
                   /\ hist[r].read = <<>>
                   /\ hist[r].status \in {"queued", "rejected"}
                   /\ hist[r].status = "queued" => Ops(r) = <<>> /\ InQueue(r)
                   /\ hist[r].status = "rejected"
                       => /\ Ops(r) = look \o Refusal(e)
                          /\ ~ InQueue(r)
                          /\ <<e.requestor, e.property>> \notin DOMAIN transfers_

\* a MULTIPLE request whose property held a value of the wrong format, type
\* or length was refused
IllFormedPairsRefused ==
    \E r \in Known :
        /\ InvalidMultiple(r)
        /\ hist[r].probe # <<>>
        /\ hist[r].status = "rejected"


\* ------------------------------------------------------ obsolete clients
\* an otherwise valid request of a client that names no property
FromObsoleteClient(r) == Accepted(r) /\ Orig(r).property = XCB_ATOM_NONE

\* C23: a valid request for a registered target other than MULTIPLE whose
\* property is None is served on the property named by its target: every
\* write goes to (requestor, target), the transfer state of a transfer in
\* progress is keyed by (requestor, target) and never by (requestor, None),
\* and the SelectionNotify of a transfer without error carries
\* property = target; a finished transfer has written and notified once.
ObsoleteClientServed ==
    \A r \in Known :
        FromObsoleteClient(r)
            => LET e == Orig(r)
                   key == <<e.requestor, e.target>>
               IN  /\ \A k \in 1 .. Len(Ops(r)) :
                          LET o == Ops(r)[k]
                          IN  /\ IsWrite(o)
                                  => o.window = e.requestor /\ o.property = e.target
                              /\ IsNotify(o) /\ hist[r].err = "none"
                                  => o = SelectionNotify([e EXCEPT
                                                             !.property = e.target])
                   /\ hist[r].status = "started"
                       => /\ <<e.requestor, XCB_ATOM_NONE>> \notin DOMAIN transfers_
                          /\ key \in DOMAIN transfers_
                          /\ transfers_[key].type = Converted(e.target).type
                          /\ transfers_[key].size = Converted(e.target).size
                   /\ hist[r].status = "done"
                       => /\ Len(DataWrites(r)) >= 1
                          /\ Len(Notifications(r)) = 1

\* an obsolete client's request for data that needs an incremental transfer
\* was served to the end
ObsoleteClientIncrDone ==
    \E r \in Known :
        /\ FromObsoleteClient(r)
        /\ Incremental(r)
        /\ Len(DataWrites(r)) >= 2
        /\ hist[r].status = "done"


\* ------------------------------------------------- MULTIPLE terminates
\* a list of n >= 1 pairs, each naming a property and a registered target that
\* is MULTIPLE itself or whose data fits one write
SingleShotPairs(v) ==
    /\ PairCount(v) >= 1
    /\ \A i \in 1 .. PairCount(v) :
           /\ PairProperty(v, i) # XCB_ATOM_NONE
           /\ PairTarget(v, i) \in handlers_
           /\ \/ PairTarget(v, i) = MULTIPLE
              \/ Converted(PairTarget(v, i)).size <= max_transfer_size_

\* C24: a MULTIPLE request that has read a list of single-shot pairs (a pair
\* may name the parent's own property or the target MULTIPLE) reads and
\* expands its property once, never makes its requestor's queue longer than
\* the requests received plus its pairs, lets the loop go on (no step taken
\* for it is undefined), and is popped only after its write-back and its
\* SelectionNotify.
MultipleTerminates ==
    \A r \in Known :
        MultipleRequest(r) /\ SingleShotPairs(PairsRead(r))
            => LET e == Orig(r)
                   v == PairsRead(r)
               IN  /\ ub = {}
                   /\ pc \in {"loop", "returned"}
                   /\ Len(SelectSeq(Ops(r), IsRead)) = 2
                   /\ Len(req_queues_[e.requestor]) <= MaxRequests + PairCount(v)
                   /\ ~ InQueue(r) /\ hist[r].err = "none"
                       => /\ hist[r].status = "done"
                          /\ \E k \in 1 .. Len(Ops(r)) : IsWriteBack(e, Ops(r)[k])
                          /\ Ops(r)[Len(Ops(r))] = SelectionNotify(e)


\* -------------------------------------------------------- empty MULTIPLE
\* the requestor's property is a well-formed ATOM_PAIR value without a pair
EmptyMultiple(r) ==
    /\ MultipleRequest(r)
    /\ hist[r].probe = <<Reply(32, atom_pair_atom_, <<>>)>>

\* C25: a MULTIPLE request whose property holds zero pairs enqueues no
\* sub-request and, unless an X request of it fails, is served as a successful
\* transfer: it reads the property, writes back an ATOM_PAIR value of format
\* 32 with zero elements to the property and sends exactly one
\* SelectionNotify with the target MULTIPLE and the property P of the request;
\* it is popped and leaves no transfer state.
EmptyMultipleServed ==
    \A r \in Known :
        EmptyMultiple(r)
            => LET e == Orig(r)
               IN  /\ SubRequestsOf(r) = {}
                   /\ hist[r].err = "none"
                       => /\ Ops(r) =
                               <<GetProperty(e.requestor, e.property, 0, 0),
                                 GetProperty(e.requestor, e.property,
                                             atom_pair_atom_, 0),
                                 ChangeProperty(e.requestor, e.property,
                                                atom_pair_atom_, 32, 0, "pairs", 0,
                                                0, <<>>),
                                 SelectionNotify(e)>>
                          /\ hist[r].status = "done"
                          /\ ~ InQueue(r)
                          /\ <<e.requestor, e.property>> \notin DOMAIN transfers_

\* an empty MULTIPLE request was answered
EmptyMultipleDone ==
    \E r \in Known : EmptyMultiple(r) /\ hist[r].status = "done"


\* --------------------------------------- transfer engine and its entries
\* the keys a MULTIPLE request with pair list v uses: its own property and
\* the properties of its pairs
KeysOf(e, v) ==
    {<<e.requestor, e.property>>}
    \cup {<<e.requestor, PairProperty(v, i)>> : i \in 1 .. PairCount(v)}

\* C26: the transfer step runs on converted data only: for a request other
\* than MULTIPLE, and for a MULTIPLE request with one or more pairs that each
\* name a property, every write issued has the element format 8 or 32 and a
\* type, the entries of the transfer-state table under the request's keys are
\* not default-constructed (format 8 or 32), and no step divided by a format
\* of 0.
TransferOnConvertedData ==
    \A r \in Known :
        Accepted(r) \/ (MultipleRequest(r) /\ SingleShotPairs(PairsRead(r)))
            => /\ "division_by_zero" \notin ub
               /\ \A k \in 1 .. Len(Ops(r)) :
                      IsWrite(Ops(r)[k])
                          => Ops(r)[k].format \in {8, 32} /\ Ops(r)[k].type # 0
               /\ \A key \in KeysOf(Orig(r), PairsRead(r))
                                \cup {<<Orig(r).requestor, Orig(r).target>>} :
                      key \in DOMAIN transfers_
                          => /\ transfers_[key] # DefaultTransferState
                             /\ transfers_[key].format \in {8, 32}


\* ------------------------------------------------------- event ownership
\* the queue entries that point to event r
EntriesOf(r) ==
    {<<w, i>> \in Requestors \X (1 .. MaxRequests + 4) :
        i <= Len(req_queues_[w]) /\ req_queues_[w][i].req = r}

\* C27: every SelectionRequest event is owned by one queue entry and is
\* released once, when that entry is popped: as long as no step was
\* undefined, no queue entry points to a released event and no two entries
\* point to the same event; and no step reads a released event or releases
\* an event a second time.
EventOwnership ==
    /\ ub = {}
        => \A r \in Rids :
               /\ Cardinality(EntriesOf(r)) <= 1
               /\ r \in freed => EntriesOf(r) = {}
    /\ "read_after_free" \notin ub
    /\ "double_free" \notin ub


\* ------------------------------------------------ transfer-state cleanup
EntriesOfRequestor(w) == {k \in DOMAIN transfers_ : k[1] = w}

\* C28: a request that has just been finished (done, rejected or failed)
\* has no transfer-state entry left under its requestor and the property it
\* was served on; a requestor without a queued request has no entry at all,
\* so the table is empty whenever all queues are empty.
TransferStateCleanup ==
    /\ \A r \in Known :
           hist[r].status \in FinalStatus
               => <<Orig(r).requestor, ServedProperty(Orig(r))>> \notin DOMAIN transfers_
    /\ \A w \in Requestors : req_queues_[w] = <<>> => EntriesOfRequestor(w) = {}
    /\ QueuesEmpty => DOMAIN transfers_ = {}


\* ------------------------------------------ frame of non-matching events
\* event ev, about to be handled, is a PropertyNotify that is not a Delete of
\* the property of its window's head request, or an event of another type
\* than SelectionRequest, SelectionClear, PropertyNotify and 0
NonMatching(ev) ==
    \/ ev.type = "Other"
    \/ /\ ev.type = "PropertyNotify"
       /\ \/ ev.state # "Delete"
          \/ req_queues_[ev.window] = <<>>
          \/ events[HeadOf(ev.window)].property # ev.atom

\* C29: the iteration that handles a non-matching event changes no queue (no
\* entry, no ready flag), no transfer state and not the ownership flag; and
\* the iteration that handles a PropertyNotify(Delete) for requestor A leaves
\* a waiting head of another requestor B waiting.
NonMatchingEventFrame ==
    [][/\ pc = "loop" /\ NonMatching(last')
           => /\ req_queues_' = req_queues_
              /\ transfers_' = transfers_
              /\ own' = own
       /\ \A a, b \in Requestors :
              /\ pc = "loop"
              /\ a # b
              /\ last'.type = "PropertyNotify"
              /\ last'.window = a
              /\ Stalled(b)
              => Stalled(b)']_vars


\* -------------------------------------------------------- INCR chunks
\* C30: every INCR data chunk of a transfer of data_size bytes has a byte
\* length c with c <= min(max_transfer_size_, data_size - transferred) and
\* 8 * c a multiple of the element format, so that the element count written
\* is exactly 8 * c / format, and the transferred counter never exceeds the
\* size.
NoSplitElements ==
    /\ \A r \in Known :
           \A k \in 1 .. Len(Ops(r)) :
               LET o == Ops(r)[k]
               IN  IsDataWrite(o)
                       => /\ o.off <= data_size
                          /\ o.bytes <= Min(max_transfer_size_, data_size - o.off)
                          /\ (8 * o.bytes) % o.format = 0
                          /\ o.len * o.format = 8 * o.bytes
    /\ \A key \in DOMAIN transfers_ :
           transfers_[key].tranferred <= transfers_[key].size


\* ----------------------------------------------------------- TEXT mapping
\* the best of the registered text atoms: UTF8_STRING > STRING > C_STRING
ChosenText ==
    IF UTF8_STRING \in handlers_ THEN UTF8_STRING
    ELSE IF STRING_ATOM \in handlers_ THEN STRING_ATOM
    ELSE C_STRING

\* the same choice told by the validators
ChosenByValidators ==
    IF PayloadIsUtf8 THEN UTF8_STRING
    ELSE IF PayloadIsString THEN STRING_ATOM
    ELSE C_STRING

\* the server interned every text atom the constructor asked for
AllTextInterned ==
    /\ {TEXT, C_STRING} \subseteq handlers_
    /\ PayloadIsString => STRING_ATOM \in handlers_
    /\ PayloadIsUtf8 => UTF8_STRING \in handlers_

TextRequest(r) == Accepted(r) /\ Orig(r).target = TEXT

\* every data write of a TEXT request carries the raw payload in format 8
\* with the chosen type; a finished request has carried the whole payload
TextWritesChosen ==
    \A r \in Known :
        TextRequest(r)
            => LET w == DataWrites(r)
               IN  /\ ChosenText \in handlers_ \ {TEXT}
                   /\ AllTextInterned => ChosenText = ChosenByValidators
                   /\ \A i \in 1 .. Len(w) :
                          /\ w[i].type = ChosenText
                          /\ w[i].format = 8
                          /\ w[i].data = "data_"
                          /\ w[i].off = BytesOf(w, i - 1)
                   /\ hist[r].status = "done"
                       => Len(w) >= 1 /\ BytesOf(w, Len(w)) = data_size

\* C31: every data write of a TEXT request carries the raw payload in format
\* 8 with the type atom that is the best of the registered text atoms by the
\* priority UTF8_STRING > STRING > C_STRING, which is a registered atom other
\* than TEXT; where every text atom was interned this is UTF8_STRING if the
\* payload passes the UTF-8 validator, else STRING if it passes the Latin-1
\* validator, else C_STRING; and no step of the session changes the choice,
\* so all TEXT requests are written with the same type.
TextMappingChoice ==
    /\ []TextWritesChosen
    /\ [][ChosenText' = ChosenText /\ text_mapping_atom' = text_mapping_atom]_vars

\* a TEXT request was served as UTF8_STRING in a session that has registered
\* STRING as well
TextServedAsUtf8 ==
    \E r \in Known :
        /\ TextRequest(r)
        /\ {UTF8_STRING, STRING_ATOM} \subseteq handlers_
        /\ hist[r].status = "done"
        /\ DataWrites(r)[1].type = UTF8_STRING


\* ------------------------------------------ the validators of the payload
\* bytes of every kind the validator tells apart: a control character, \n,
\* a letter, DEL, the ends and two inner values of the continuation range,
\* and lead bytes of each length at the edges of their ranges
Utf8Bytes == {1, 10, 65, 127, 128, 143, 160, 191, 192, 194, 224, 237, 240, 244, 248}
\* the longest payload handed to the constructor
Utf8MaxLen == 4
Utf8Inputs == UNION {[1 .. n -> Utf8Bytes] : n \in 0 .. Utf8MaxLen}

\* the constructor is entered with the payload as text; no handler is
\* registered yet
Utf8Init ==
    /\ pc = "construct"
    /\ own = TRUE
    /\ \E L \in MaxRequestLengths : max_transfer_size_ = 2 * L
    /\ data_head \in Utf8Inputs
    /\ data_size = Len(data_head)
    /\ is_file = FALSE
    /\ handlers_ = {}
    /\ xlog = <<>>
    /\ req_queues_ = [w \in Requestors |-> <<>>]
    /\ events = [r \in Rids |-> FreedEvent]
    /\ freed = {}
    /\ transfers_ = <<>>
    /\ cache_ = <<>>
    /\ nreq = 0
    /\ ub = {}
    /\ hist = [r \in Rids |-> NoHistory("none")]
    /\ last = [type |-> "none"]

\* the constructor: the text targets whose validator accepts the payload are
\* interned with the required ones, every InternAtom succeeding, the handlers
\* are registered and the selection is acquired
Construct ==
    /\ pc = "construct"
    /\ pc' = "start"
    /\ handlers_' = RegisterHandlers(InternedTargets(data_, is_file, {}))
    /\ xlog' = <<SetSelectionOwner(owner_, clipboard_atom_, AcquireTime)>>
    /\ UNCHANGED <<own, max_transfer_size_, data_size, data_head, is_file,
                   req_queues_, events, freed, transfers_, cache_, nreq, ub,
                   hist, last>>

Utf8Next == Construct

Utf8Spec == Utf8Init /\ [][Utf8Next]_vars

\* ------------------------------------------------------- UTF-8 validator
\* b is a continuation byte within lo .. hi
InRange(data, i, lo, hi) == i <= Len(data) /\ lo <= data[i] /\ data[i] <= hi
Cont(data, i) == InRange(data, i, 128, 191)

\* the length of the well-formed sequence of a permitted character that
\* begins at position i, 0 if there is none: the byte ranges of the Unicode
\* standard (no overlong form, no surrogate, nothing above U+10FFFF), and of
\* the ASCII control bytes only \n and \t
CharAt(data, i) ==
    LET b == data[i]
    IN  IF b < 128
        THEN IF (b >= 32 /\ b # 127) \/ b \in {9, 10} THEN 1 ELSE 0
        ELSE IF 194 <= b /\ b <= 223
        THEN IF Cont(data, i + 1) THEN 2 ELSE 0
        ELSE IF 224 <= b /\ b <= 239
        THEN IF /\ InRange(data, i + 1, IF b = 224 THEN 160 ELSE 128,
                                        IF b = 237 THEN 159 ELSE 191)
                /\ Cont(data, i + 2)
             THEN 3 ELSE 0
        ELSE IF 240 <= b /\ b <= 244
        THEN IF /\ InRange(data, i + 1, IF b = 240 THEN 144 ELSE 128,
                                        IF b = 244 THEN 143 ELSE 191)
                /\ Cont(data, i + 2)
                /\ Cont(data, i + 3)
             THEN 4 ELSE 0
        ELSE 0

RECURSIVE WellFormedFrom(_, _)
WellFormedFrom(data, i) ==
    \/ i > Len(data)
    \/ CharAt(data, i) # 0 /\ WellFormedFrom(data, i + CharAt(data, i))

\* well-formed UTF-8 of permitted characters
ValidUtf8(data) == WellFormedFrom(data, 1)

\* C32: is_icccm_utf8_string accepts the constructor's payload exactly when it is
\* well-formed UTF-8 (no truncated or malformed sequence, no overlong
\* encoding, no surrogate half, no code point above U+10FFFF) without ASCII
\* control bytes other than \n and \t, and once the constructor has run
\* UTF8_STRING is registered exactly for such payloads.
Utf8ValidatorExact ==
    pc = "start"
        => /\ is_icccm_utf8_string(data_) <=> ValidUtf8(data_)
           /\ UTF8_STRING \in handlers_ <=> ValidUtf8(data_)

\* the validator rejects the defects it does detect: it never accepts a
\* payload that is not well-formed for another reason than a surrogate half
\* above U+D8FF or a 4-byte overlong form of U+1000 .. U+FFFF
SurrogateOrOverlongAt(data, i) ==
    \/ data[i] = 237 /\ InRange(data, i + 1, 160, 191) /\ Cont(data, i + 2)
    \/ data[i] = 240 /\ InRange(data, i + 1, 128, 143) /\ Cont(data, i + 2)
                     /\ Cont(data, i + 3)
Utf8ValidatorSound ==
    is_icccm_utf8_string(data_) /\ ~ ValidUtf8(data_)
        => \E i \in 1 .. Len(data_) : SurrogateOrOverlongAt(data_, i)

====
